---- MODULE Spec2Model ----
(***************************************************************************)
(* Verification model of chess-vision-overlay: the worker-backed           *)
(* VisionPipeline (main thread), the vision worker (handleProcess and its  *)
(* message listener), the PieceClassifier life cycle, the ChangeDetector   *)
(* and the FEN utilities.                                                  *)
(*                                                                         *)
(* Units: times are milliseconds; confidences are thousandths (0.58 is     *)
(* 580), occupancies ten-thousandths, luminance variances 10^-8.           *)
(* Arrays keep the source's 0-based indexing: a label array is a function  *)
(* on 0..63.  A FEN string is a sequence of one-character strings.         *)
(***************************************************************************)
EXTENDS Integers, Sequences, FiniteSets, TLC

\* null / undefined of the source: of an object, of a label array, of a
\* string (the empty string is as falsy as null), of a character
Null == [null |-> TRUE]
NoPieces == <<>>
NoFen == <<>>
None == "none"

\* a thrown exception or rejected promise
Throws == [throws |-> TRUE]

Max(a, b) == IF a >= b THEN a ELSE b
Min(a, b) == IF a <= b THEN a ELSE b

Squares == 0..63

(***************************************************************************)
(* fen-utils.ts                                                            *)
(***************************************************************************)
PIECE_LABELS == <<"1", "P", "N", "B", "R", "Q", "K", "p", "n", "b", "r", "q", "k">>
BACK_RANK_WHITE == <<"R", "N", "B", "Q", "K", "B", "N", "R">>
BACK_RANK_BLACK == <<"r", "n", "b", "q", "k", "b", "n", "r">>

WhiteLabels == {"P", "N", "B", "R", "Q", "K"}
BlackLabels == {"p", "n", "b", "r", "q", "k"}

DigitChars == <<"0", "1", "2", "3", "4", "5", "6", "7", "8", "9">>

\* String(n) for a one-digit number
DigitOf(n) == DigitChars[n + 1]

\* parseInt(d) for a one-digit string
ParseDigit(c) == (CHOOSE k \in 1..10 : DigitChars[k] = c) - 1

IsDigit(c) == \E k \in 1..10 : DigitChars[k] = c

FEN_SUFFIX == <<" ", "w", " ", "-", " ", "-", " ", "0", " ", "1">>

\* the inner loop of piecesToFen over the files of one rank
RECURSIVE fenRankFrom(_, _, _, _, _)
fenRankFrom(pieces, rank, file, empty, fenRank) ==
  IF file = 8
  THEN IF empty > 0 THEN Append(fenRank, DigitOf(empty)) ELSE fenRank
  ELSE LET piece == pieces[rank * 8 + file]
       IN  IF piece = "1"
           THEN fenRankFrom(pieces, rank, file + 1, empty + 1, fenRank)
           ELSE fenRankFrom(pieces, rank, file + 1, 0,
                  Append(IF empty > 0 THEN Append(fenRank, DigitOf(empty)) ELSE fenRank,
                         piece))

\* ranks.join('/') from rank on
RECURSIVE joinRanksFrom(_, _)
joinRanksFrom(pieces, rank) ==
  IF rank = 7
  THEN fenRankFrom(pieces, 7, 0, 0, <<>>)
  ELSE fenRankFrom(pieces, rank, 0, 0, <<>>) \o <<"/">> \o joinRanksFrom(pieces, rank + 1)

\* piecesToFen that returns the board part alone
piecesToFenBoardOnly(pieces) == joinRanksFrom(pieces, 0)

\* piecesToFen(pieces)
piecesToFen(pieces) == joinRanksFrom(pieces, 0) \o FEN_SUFFIX

\* line 34: fen.trim().split(/\s+/)[0], a blank being the only white space
RECURSIVE firstFieldFrom(_, _)
firstFieldFrom(fen, i) ==
  IF i > Len(fen) THEN <<>>
  ELSE IF fen[i] = " " THEN firstFieldFrom(fen, i + 1)
  ELSE LET RECURSIVE upToBlank(_)
           upToBlank(j) ==
             IF j > Len(fen) \/ fen[j] = " " THEN <<>> ELSE <<fen[j]>> \o upToBlank(j + 1)
       IN  upToBlank(i)

\* line 35: boardPart.split('/')
RECURSIVE splitRanksFrom(_, _, _)
splitRanksFrom(board, i, current) ==
  IF i > Len(board) THEN <<current>>
  ELSE IF board[i] = "/" THEN <<current>> \o splitRanksFrom(board, i + 1, <<>>)
  ELSE splitRanksFrom(board, i + 1, Append(current, board[i]))

\* line 45: /^[1-8]$/
isSkipToken(token) == IsDigit(token) /\ token # "0" /\ token # "9"

\* isPieceToken that knows the black pieces only
isPieceTokenLowerCase(token) == token \in BlackLabels

\* line 50: /[prnbqkPRNBQK]/
isPieceToken(token) == token \in WhiteLabels \cup BlackLabels

\* lines 43-56: the labels of one rank, file by file
RECURSIVE rankPiecesFrom(_, _, _, _)
rankPiecesFrom(tokens, i, file, row) ==
  IF i > Len(tokens) THEN row
  ELSE LET token == tokens[i]
       IN  IF isSkipToken(token)
           THEN rankPiecesFrom(tokens, i + 1, file + ParseDigit(token), row)
           ELSE IF ~isPieceToken(token) \/ file > 7
           THEN rankPiecesFrom(tokens, i + 1, file, row)
           ELSE rankPiecesFrom(tokens, i + 1, file + 1, [row EXCEPT ![file] = token])

fenToPieces(fen) ==
  LET ranks == splitRanksFrom(firstFieldFrom(fen, 1), 1, <<>>)
      emptyRow == [file \in 0..7 |-> "1"]
  IN  IF Len(ranks) # 8 THEN [sq \in Squares |-> "1"]
      ELSE LET rows == [rank \in 0..7 |-> rankPiecesFrom(ranks[rank + 1], 1, 0, emptyRow)]
           IN  [sq \in Squares |-> rows[sq \div 8][sq % 8]]

\* rotatePieces180 that turns the ranks over and leaves the files
rotateRanksOnly(pieces) ==
  [dst \in Squares |->
     LET dstRank == dst \div 8
         dstFile == dst % 8
     IN  pieces[(7 - dstRank) * 8 + dstFile]]

rotatePieces180(pieces) ==
  [dst \in Squares |->
     LET dstRank == dst \div 8
         dstFile == dst % 8
     IN  pieces[(7 - dstRank) * 8 + (7 - dstFile)]]

\* whiteBottomScore - blackBottomScore contribution of one square
perspectiveTerm(pieces, sq) ==
  LET rank == sq \div 8
      topWeight == Max(0, 4 - rank)
      bottomWeight == Max(0, rank - 3)
      piece == pieces[sq]
  IN  IF piece = "1" THEN 0
      ELSE IF piece \in WhiteLabels THEN bottomWeight - topWeight
      ELSE topWeight - bottomWeight

RECURSIVE whiteBottomScoreFrom(_, _)
whiteBottomScoreFrom(pieces, sq) ==
  IF sq = 64 THEN 0 ELSE perspectiveTerm(pieces, sq) + whiteBottomScoreFrom(pieces, sq + 1)

\* blackBottomScore is the negation of whiteBottomScore term by term
detectBoardPerspective(pieces) ==
  LET whiteBottomScore == whiteBottomScoreFrom(pieces, 0)
      blackBottomScore == 0 - whiteBottomScore
  IN  IF blackBottomScore > whiteBottomScore THEN "black-bottom" ELSE "white-bottom"

(***************************************************************************)
(* change-detector.ts                                                      *)
(***************************************************************************)
\* fen.split(' ')[0]
RECURSIVE boardPartFrom(_, _)
boardPartFrom(fen, i) ==
  IF i > Len(fen) \/ fen[i] = " " THEN <<>>
  ELSE <<fen[i]>> \o boardPartFrom(fen, i + 1)

boardPart(fen) == boardPartFrom(fen, 1)

RECURSIVE dots(_)
dots(n) == IF n = 0 THEN <<>> ELSE <<".">> \o dots(n - 1)

\* expand(board).replace(/\//g, '')
RECURSIVE expandFrom(_, _)
expandFrom(board, i) ==
  IF i > Len(board) THEN <<>>
  ELSE LET c == board[i]
       IN  (IF IsDigit(c) THEN dots(ParseDigit(c))
            ELSE IF c = "/" THEN <<>>
            ELSE <<c>>) \o expandFrom(board, i + 1)

charAt(s, i) == IF i + 1 <= Len(s) THEN s[i + 1] ELSE None

\* countDifferences that compares the boards without expanding the digits
countDifferencesUnexpanded(fen1, fen2) ==
  LET s1 == boardPart(fen1)
      s2 == boardPart(fen2)
  IN  Cardinality({i \in Squares : charAt(s1, i) # charAt(s2, i)})

countDifferences(fen1, fen2) ==
  LET s1 == expandFrom(boardPart(fen1), 1)
      s2 == expandFrom(boardPart(fen2), 1)
  IN  Cardinality({i \in Squares : charAt(s1, i) # charAt(s2, i)})

NEW_GAME_DIFF == 10

\* detectType that takes the first observation for a move
detectTypeFirstIsMove(lastFen, currentFen) ==
  IF lastFen = NoFen THEN "move"
  ELSE IF currentFen = lastFen THEN "no-change"
  ELSE IF countDifferences(lastFen, currentFen) > NEW_GAME_DIFF THEN "new-game"
  ELSE "move"

\* detectType for which ten changed squares are already a new game
detectTypeFromTen(lastFen, currentFen) ==
  IF lastFen = NoFen THEN "new-game"
  ELSE IF currentFen = lastFen THEN "no-change"
  ELSE IF countDifferences(lastFen, currentFen) >= NEW_GAME_DIFF THEN "new-game"
  ELSE "move"

\* ChangeDetector.detect: the result type and the remembered FEN afterwards
detectType(lastFen, currentFen) ==
  IF lastFen = NoFen THEN "new-game"
  ELSE IF currentFen = lastFen THEN "no-change"
  ELSE IF countDifferences(lastFen, currentFen) > NEW_GAME_DIFF THEN "new-game"
  ELSE "move"

\* detect() that keeps the FEN of the last new game as its reference
detectLastFenAnchored(lastFen, currentFen) ==
  IF lastFen = NoFen THEN currentFen
  ELSE IF currentFen = lastFen THEN lastFen
  ELSE IF countDifferences(lastFen, currentFen) > NEW_GAME_DIFF THEN currentFen
  ELSE lastFen

detectLastFen(lastFen, currentFen) ==
  IF lastFen = NoFen THEN currentFen
  ELSE IF currentFen = lastFen THEN lastFen
  ELSE currentFen

\* line 16: the count detect() makes, -1 when it returns before counting
detectDiff(lastFen, currentFen) ==
  IF lastFen = NoFen \/ currentFen = lastFen THEN -1
  ELSE countDifferences(lastFen, currentFen)

(***************************************************************************)
(* piece-classifier: the pure part of classifyDetailed                     *)
(***************************************************************************)
\* PieceClassifierOptions.forceMock of the worker's classifier (the default)
forceMock == FALSE

\* heuristicPiecesFromOccupancy's threshold 0.08, in ten-thousandths
OCCUPANCY_THRESHOLD == 800

\* floor(sqrt(n)) by bisection: lo * lo <= n < hi * hi
RECURSIVE sqrtBetween(_, _, _)
sqrtBetween(n, lo, hi) ==
  IF hi - lo <= 1 THEN lo
  ELSE LET mid == (lo + hi) \div 2
       IN  IF mid * mid <= n THEN sqrtBetween(n, mid, hi) ELSE sqrtBetween(n, lo, mid)

ISqrt(n) == sqrtBetween(n, 0, 10001)

\* preprocessBoard: occupancy[sq] = sqrt(variance of the tile's luminance);
\* a scene gives each tile's luminance variance (hundred-millionths),
\* the occupancy is in ten-thousandths
preprocessBoard(variance) == [sq \in Squares |-> ISqrt(variance[sq])]

heuristicLabel(sq, oc) ==
  LET rank == sq \div 8
      file == sq % 8
  IN  IF oc < OCCUPANCY_THRESHOLD THEN "1"
      ELSE IF rank = 0 THEN BACK_RANK_BLACK[file + 1]
      ELSE IF rank = 1 THEN "p"
      ELSE IF rank = 6 THEN "P"
      ELSE IF rank = 7 THEN BACK_RANK_WHITE[file + 1]
      ELSE "P"

heuristicConfidence(sq, oc) ==
  LET rank == sq \div 8
  IN  IF oc < OCCUPANCY_THRESHOLD
      THEN Max(200, 1000 - (oc * 1000) \div OCCUPANCY_THRESHOLD)
      ELSE IF rank = 0 \/ rank = 7 THEN 800
      ELSE IF rank = 1 \/ rank = 6 THEN 750
      ELSE 450

heuristicPiecesFromOccupancy(occupancy) ==
  [pieces |-> [sq \in Squares |-> heuristicLabel(sq, occupancy[sq])],
   confidences |-> [sq \in Squares |-> heuristicConfidence(sq, occupancy[sq])]]

\* 1 / (1 + exp(-m)) in thousandths, for an integer margin m >= 0
Sigmoid(m) == IF m >= 7 THEN 1000 ELSE <<500, 731, 881, 953, 982, 993, 998>>[m + 1]

\* the first class with the greatest score (score > bestScore is strict)
bestClassOf(scores) ==
  CHOOSE c \in 0..12 :
    /\ \A d \in 0..12 : scores[d] <= scores[c]
    /\ \A d \in 0..(c - 1) : scores[d] < scores[c]

\* the greatest score among the other classes
secondScoreOf(scores) ==
  LET b == bestClassOf(scores)
  IN  CHOOSE v \in {scores[d] : d \in (0..12) \ {b}} :
        \A d \in (0..12) \ {b} : scores[d] <= v

\* logitsToPieces: bestProb = 1 / expSum never exceeds the margin score, since
\* expSum >= 1 + exp(second - best); so max(bestProb, margin) is the margin score.
logitsToPieces(logits) ==
  [pieces |-> [sq \in Squares |-> PIECE_LABELS[bestClassOf(logits[sq]) + 1]],
   confidences |-> [sq \in Squares |->
      Sigmoid(logits[sq][bestClassOf(logits[sq])] - secondScoreOf(logits[sq]))]]

RECURSIVE sumFrom(_, _)
sumFrom(f, sq) == IF sq = 64 THEN 0 ELSE f[sq] + sumFrom(f, sq + 1)

\* classifyDetailed lines 86-102: perspective normalisation of the raw labels
normalizeOnlyForced(raw, flip) ==
  LET perspective == detectBoardPerspective(raw.pieces)
      shouldFlip == flip
      normalizedPieces == IF shouldFlip THEN rotatePieces180(raw.pieces) ELSE raw.pieces
  IN  [fen |-> piecesToFen(normalizedPieces),
       pieces |-> normalizedPieces,
       confidences |-> raw.confidences,
       perspective |-> perspective,
       wasFlipped |-> shouldFlip,
       averageConfidence |-> sumFrom(raw.confidences, 0) \div 64]

normalize(raw, flip) ==
  LET perspective == detectBoardPerspective(raw.pieces)
      shouldFlip == flip \/ perspective = "black-bottom"
      normalizedPieces == IF shouldFlip THEN rotatePieces180(raw.pieces) ELSE raw.pieces
  IN  [fen |-> piecesToFen(normalizedPieces),
       pieces |-> normalizedPieces,
       confidences |-> raw.confidences,
       perspective |-> perspective,
       wasFlipped |-> shouldFlip,
       averageConfidence |-> sumFrom(raw.confidences, 0) \div 64]

(***************************************************************************)
(* Inputs: what a captured frame shows.  A frame is abstracted to the      *)
(* answer BoardDetector.detect gives on it (a Region, null or an           *)
(* exception) and the scene on the board (each tile's luminance variance   *)
(* and the scores the ONNX model gives each tile).                         *)
(***************************************************************************)
StartPieces ==
  [sq \in Squares |->
     LET rank == sq \div 8
         file == sq % 8
     IN  IF rank = 0 THEN BACK_RANK_BLACK[file + 1]
         ELSE IF rank = 1 THEN "p"
         ELSE IF rank = 6 THEN "P"
         ELSE IF rank = 7 THEN BACK_RANK_WHITE[file + 1]
         ELSE "1"]

\* the start position after the black e-pawn left e7 (square 12) for e5 (square 28)
E5Pieces == [StartPieces EXCEPT ![12] = "1", ![28] = "p"]

ClassIndex(label) == (CHOOSE k \in 1..13 : PIECE_LABELS[k] = label) - 1

\* scores that make `label` the top class by `margin`
ScoresFor(label, margin) == [c \in 0..12 |-> IF c = ClassIndex(label) THEN margin ELSE 0]

Scenes == {"start", "e5", "rotated"}

\* the model's 64 x 13 output on each scene
AllSceneLogits ==
  [scene \in Scenes |->
     IF scene = "start" THEN [sq \in Squares |-> ScoresFor(StartPieces[sq], 4)]
     ELSE IF scene = "e5"
     THEN [sq \in Squares |->
             ScoresFor(E5Pieces[sq], IF sq = 12 THEN 0 ELSE IF sq = 28 THEN 1 ELSE 4)]
     ELSE [sq \in Squares |->
             ScoresFor(rotatePieces180(StartPieces)[sq], IF sq < 8 THEN 0 ELSE 4)]]

SceneLogits(scene) == AllSceneLogits[scene]

\* each tile's luminance variance on a scene
SceneVariance(scene) ==
  IF scene = "start" THEN [sq \in Squares |-> IF StartPieces[sq] = "1" THEN 0 ELSE 4000000]
  ELSE IF scene = "e5"
  THEN [sq \in Squares |->
          IF sq = 12 THEN 313600        \* occupancy 0.056: empty, confidence 0.3
          ELSE IF sq = 11 THEN 112896   \* occupancy 0.0336: empty, confidence 0.58
          ELSE IF sq = 28 THEN 1000000  \* occupancy 0.1: occupied
          ELSE IF StartPieces[sq] = "1" THEN 0 ELSE 4000000]
  ELSE [sq \in Squares |-> IF StartPieces[sq] = "1" THEN 10000 ELSE 4000000]

Region1 == [x |-> 40, y |-> 20, width |-> 320, height |-> 320]
Region2 == [x |-> 100, y |-> 60, width |-> 240, height |-> 240]

\* the frames a capture can give: the board in one place at the start
\* position, the board elsewhere after a move, no board, and a frame the
\* detector fails on
Frames ==
  { [board |-> Region1, scene |-> "start"],
    [board |-> Region2, scene |-> "e5"],
    [board |-> Null, scene |-> "start"],
    [board |-> Throws, scene |-> "start"] }

(***************************************************************************)
(* Bounds of the model                                                     *)
(***************************************************************************)
\* frames submitted over the pipeline's lifetime
MaxRequests == 2
\* calls of start()
MaxStarts == 1
\* calls of setForceFlip()
MaxFlips == 1

(***************************************************************************)
(* Program constants                                                       *)
(***************************************************************************)
\* DEFAULT_OPTIONS of the pipeline
boardRefreshMs == 1000
lowConfidenceThreshold == 580
\* Number.MAX_SAFE_INTEGER (2^53 - 1), here the largest value that exceeds
\* every request id
MAX_SAFE_INTEGER == 2147483647

\* Date.now() is read when a frame is captured: the first capture is made at
\* ClockStart, a later one half a refresh interval or a whole one after the
\* capture before it
ClockStart == boardRefreshMs
Elapsed(latest) == IF latest = 0 THEN {0} ELSE {boardRefreshMs \div 2, boardRefreshMs}

VARIABLES
  \* VisionPipeline (main thread) and its ChangeDetector
  running, latestRequestId, lastDeliveredAt, forceFlip, lastFen,
  \* worker.terminate() was called; calls of start(); the onUpdate calls made
  terminated, starts, flips, updates,
  \* the two message channels and Date.now()
  toWorker, toMain, clock,
  \* vision worker
  cachedBoardRegion, lastBoardDetectionAt, canceledRequestId, previousPieces,
  \* the handleProcess invocations by request id; the worker still runs
  tasks, alive,
  \* PieceClassifier: session, modelLoadPromise, the initializations started,
  \* the dispose() call
  session, modelLoadPromise, loads, disposePc,
  \* a ChangeDetector driven on its own: the calls made on it with what they
  \* returned (its lastFen is the variable above)
  observations,
  \* a function of fen-utils, the classifier or the board detector called on
  \* its own: the call with its arguments and what it returned
  call,
  \* chrome.storage.local under SETTINGS_STORAGE_KEY, and the loadSettings and
  \* saveSettings calls made
  stored, settingsCalls,
  \* history: the number of start() calls made when each request was submitted
  requestEpoch,
  \* StockfishEngine: its fields, the channel to its worker and back, the
  \* Stockfish process behind the worker, the evaluate() calls made, and
  \* (history) the number of 'stop' commands posted
  worker, readyPromise, pendingEval, engineRequestId,
  toEngine, fromEngine, engine, evaluations, stopsPosted,
  \* PanelController: how far init() is, its fields, the position and the
  \* move history it shows, the analyzePosition calls made, what renderEval
  \* showed last, the stored last update, the vision updates received and
  \* (history) the applyVisionUpdate calls made
  panelPc, syncEnabled, autoAdvance, pendingSyncUpdate, panelLastFen, boardFen,
  moveHistory, analysisGeneration, analyses, displayed, storedUpdate, received,
  applications,
  \* the in-thread VisionPipeline: its processing flag and its handleFrame
  \* invocations (running, cachedBoardRegion and lastBoardDetectionAt are its
  \* fields of those names, lastFen its ChangeDetector)
  processing, invocations

mainVars == <<running, latestRequestId, lastDeliveredAt, forceFlip, lastFen,
              terminated, starts, flips, updates>>
workerVars == <<cachedBoardRegion, lastBoardDetectionAt, canceledRequestId,
                previousPieces, tasks, alive>>
classifierVars == <<session, modelLoadPromise, loads, disposePc>>
settingsVars == <<stored, settingsCalls>>
\* the components that are driven on their own
engineVars == <<worker, readyPromise, pendingEval, engineRequestId,
                toEngine, fromEngine, engine, evaluations, stopsPosted>>
inThreadVars == <<processing, invocations>>
panelVars == <<panelPc, syncEnabled, autoAdvance, pendingSyncUpdate, panelLastFen, boardFen,
               moveHistory, analysisGeneration, analyses, displayed, storedUpdate, received,
               applications>>
otherDrivenVars == <<engineVars, inThreadVars, panelVars>>
drivenVars == <<settingsVars, otherDrivenVars>>
pipelineVars == <<mainVars, toWorker, toMain, clock, workerVars, classifierVars>>
laterVars == <<drivenVars, requestEpoch>>
componentVars == <<observations, call, laterVars>>
vars == <<mainVars, toWorker, toMain, clock, workerVars, classifierVars, componentVars>>

\* no function has been called on its own
NoCall == [fn |-> "none"]

\* the JavaScript value undefined (a missing property reads as undefined)
Undefined == [undefined |-> TRUE]

RequestIds == 1..MaxRequests

\* a handleProcess invocation that has not started.  msg, detected, awaiting,
\* boardImage and result are its locals; wroteRegion tells whether its lines
\* 92-94 assigned cachedBoardRegion and lastBoardDetectionAt, exit how it
\* returned.
IdleTask ==
  [pc |-> "idle", msg |-> Null, detected |-> Null, awaiting |-> Null,
   boardImage |-> Null, result |-> Null, wroteRegion |-> FALSE, exit |-> None]

\* the Stockfish process before any command: no position, no search running
\* part_001 line 34: the position of a panel that has seen no update
EMPTY_FEN == "8/8/8/8/8/8/8/8 w - - 0 1"

\* the evaluation elements of the panel before the first renderEval
NothingDisplayed ==
  [kind |-> "none", analysis |-> 0, latest |-> 0, position |-> "none", search |-> 0]

IdleEngine == [position |-> None, searching |-> 0, searched |-> None, infos |-> 0]

Init ==
  /\ running = FALSE
  /\ latestRequestId = 0
  /\ lastDeliveredAt = 0
  /\ forceFlip = FALSE
  /\ lastFen = NoFen
  /\ terminated = FALSE
  /\ starts = 0
  /\ flips = 0
  /\ updates = <<>>
  /\ toWorker = <<>>
  /\ toMain = <<>>
  /\ clock = ClockStart
  /\ cachedBoardRegion = Null
  /\ lastBoardDetectionAt = 0
  /\ canceledRequestId = 0
  /\ previousPieces = NoPieces
  /\ tasks = [id \in RequestIds |-> IdleTask]
  /\ alive = TRUE
  /\ session = Null
  /\ modelLoadPromise = Null
  /\ loads = <<>>
  /\ disposePc = "idle"
  /\ observations = <<>>
  /\ call = NoCall
  /\ stored = Undefined
  /\ requestEpoch = [id \in RequestIds |-> 0]
  /\ settingsCalls = <<>>
  /\ worker = Null
  /\ readyPromise = Null
  /\ pendingEval = Null
  /\ engineRequestId = 0
  /\ toEngine = <<>>
  /\ fromEngine = <<>>
  /\ engine = IdleEngine
  /\ evaluations = <<>>
  /\ stopsPosted = 0
  /\ processing = FALSE
  /\ invocations = <<>>
  /\ panelPc = "constructed"
  /\ syncEnabled = TRUE
  /\ autoAdvance = TRUE
  /\ pendingSyncUpdate = Null
  /\ panelLastFen = EMPTY_FEN
  /\ boardFen = None
  /\ moveHistory = <<>>
  /\ analysisGeneration = 0
  /\ analyses = <<>>
  /\ displayed = NothingDisplayed
  /\ storedUpdate = Null
  /\ received = 0
  /\ applications = <<>>

(***************************************************************************)
(* VisionPipeline (main thread)                                            *)
(***************************************************************************)
\* worker.postMessage: nothing is sent to a terminated worker
postToWorker(queue, message) == IF terminated THEN queue ELSE Append(queue, message)

\* cancelLatest that posts nothing
cancelLatestNever(queue) == queue

\* cancelLatest
cancelLatest(queue) ==
  IF latestRequestId = 0 THEN queue
  ELSE postToWorker(queue, [type |-> "cancel", requestId |-> latestRequestId])

\* ++this.latestRequestId
nextRequestId(latest) == latest + 1

\* dropsMessage without the request id comparison
dropsMessageIgnoringId(isRunning, requestId, latest) == ~isRunning

\* dropsMessage that only rejects ids from the future
dropsMessageWhenNewer(isRunning, requestId, latest) == ~isRunning \/ requestId > latest

\* handleWorkerMessage's early returns before the message type is looked at
dropsMessage(isRunning, requestId, latest) == ~isRunning \/ requestId # latest

\* start(videoElement, onUpdate)
Start ==
  /\ ~running
  /\ starts < MaxStarts
  /\ running' = TRUE
  /\ starts' = starts + 1
  /\ UNCHANGED <<latestRequestId, lastDeliveredAt, forceFlip, lastFen, terminated, flips, updates,
                 toWorker, toMain, clock, workerVars, classifierVars>>
  /\ UNCHANGED componentVars

\* stop()
Stop ==
  /\ running
  /\ running' = FALSE
  /\ lastFen' = NoFen
  /\ toWorker' = cancelLatest(toWorker)
  /\ lastDeliveredAt' = 0
  /\ UNCHANGED <<latestRequestId, forceFlip, terminated, starts, flips, updates,
                 toMain, clock, workerVars, classifierVars>>
  /\ UNCHANGED componentVars

\* destroy(): stop(), post dispose, terminate the worker
Destroy ==
  /\ ~terminated
  /\ running' = FALSE
  /\ lastFen' = NoFen
  /\ lastDeliveredAt' = 0
  /\ toWorker' = Append(cancelLatest(toWorker), [type |-> "dispose"])
  /\ terminated' = TRUE
  /\ UNCHANGED <<latestRequestId, forceFlip, starts, flips, updates,
                 toMain, clock, workerVars, classifierVars>>
  /\ UNCHANGED componentVars

\* setForceFlip(value)
SetForceFlip ==
  /\ flips < MaxFlips
  /\ \E value \in BOOLEAN :
       /\ value # forceFlip
       /\ forceFlip' = value
  /\ flips' = flips + 1
  /\ UNCHANGED <<running, latestRequestId, lastDeliveredAt, lastFen, terminated, starts,
                 updates, toWorker, toMain, clock, workerVars, classifierVars>>
  /\ UNCHANGED componentVars

\* handleFrame(frame), called by the capture timer while it is set
HandleFrame ==
  /\ running
  /\ latestRequestId < MaxRequests
  /\ \E frame \in Frames, elapsed \in Elapsed(latestRequestId) :
       LET requestId == nextRequestId(latestRequestId)
           now == clock + elapsed
       IN  /\ clock' = now
           /\ latestRequestId' = requestId
           /\ requestEpoch' = [requestEpoch EXCEPT ![requestId] = starts]
           /\ toWorker' = postToWorker(cancelLatest(toWorker),
                [type |-> "process", requestId |-> requestId, frame |-> frame,
                 now |-> now, boardRefreshMs |-> boardRefreshMs,
                 confidenceThreshold |-> lowConfidenceThreshold,
                 forceFlip |-> forceFlip])
  /\ UNCHANGED <<running, lastDeliveredAt, forceFlip, lastFen, terminated, starts, flips,
                 updates,
                 toMain, workerVars, classifierVars>>
  /\ UNCHANGED <<observations, call, drivenVars>>

\* worker.onmessage -> handleWorkerMessage(message, onUpdate)
HandleWorkerMessage ==
  /\ toMain # <<>>
  /\ starts > 0
  /\ LET message == Head(toMain)
         now == clock
         delta == IF lastDeliveredAt > 0 THEN now - lastDeliveredAt ELSE 0
     IN  /\ toMain' = Tail(toMain)
         /\ IF dropsMessage(running, message.requestId, latestRequestId)
               \/ message.type = "error"
            THEN UNCHANGED <<lastDeliveredAt, lastFen, updates>>
            ELSE /\ lastDeliveredAt' = now
                 /\ lastFen' = detectLastFen(lastFen, message.fen)
                 /\ updates' = Append(updates,
                      [fen |-> message.fen,
                       boardRegion |-> message.boardRegion,
                       change |-> detectType(lastFen, message.fen),
                       timestamp |-> now,
                       wasFlipped |-> message.wasFlipped,
                       fps |-> IF delta > 0 THEN 1000 \div delta ELSE 0,
                       confidenceAverage |-> message.confidenceAverage,
                       lowConfidenceSquares |-> message.lowConfidenceSquares,
                       \* the request the update answers, the newest request
                       \* submitted and the callback installed when it was delivered
                       requestId |-> message.requestId,
                       latestAtDelivery |-> latestRequestId,
                       callback |-> starts])
  /\ UNCHANGED <<running, latestRequestId, forceFlip, terminated, starts, flips,
                 toWorker, clock, workerVars, classifierVars>>
  /\ UNCHANGED componentVars

(***************************************************************************)
(* Vision worker.  handleProcess is an async function: it runs until an    *)
(* await, and its continuation is a microtask once the awaited promise has *)
(* settled.  The worker takes its next task (a message event, the          *)
(* completion of an ONNX call) only when no continuation is ready.         *)
(* performance.now() readings (detectorMs, classifierMs, processingMs) are *)
(* not modelled.                                                           *)
(***************************************************************************)
\* isCanceled that misses the newest cancelled request
isCanceledBelow(requestId) == requestId < canceledRequestId

\* isCanceled that takes the request after the cancelled one along
isCanceledAhead(requestId) == requestId <= canceledRequestId + 1

isCanceled(requestId) == requestId <= canceledRequestId

\* needsDetection that lets the cache live one millisecond too long
needsDetectionLate(now, refreshMs) ==
  cachedBoardRegion = Null \/ now - lastBoardDetectionAt > refreshMs

\* line 90: the detector runs when nothing is cached or the cache is old
needsDetection(now, refreshMs) ==
  cachedBoardRegion = Null \/ now - lastBoardDetectionAt >= refreshMs

\* abandons without the test for a missing region
abandonsOnlyCanceled(region, requestId) == isCanceled(requestId)

\* line 97, with `region` the cache at that point
abandons(region, requestId) == region = Null \/ isCanceled(requestId)

\* cropImageData reads rect.x: a null rect is a TypeError
cropImageData(frame, rect) ==
  IF rect = Null THEN Throws ELSE [scene |-> frame.scene, rect |-> rect]

\* skipsLoad that forgets the initialization in flight
skipsLoadWithoutPromise == forceMock \/ session # Null

\* ensureModelLoaded line 124: no initialization is started
skipsLoad == forceMock \/ session # Null \/ modelLoadPromise # Null

\* smoothedLabel that also overrides a confidence equal to the threshold
smoothedLabelInclusive(classification, threshold, previous, i) ==
  IF classification.confidences[i] <= threshold
  THEN previous[i]
  ELSE classification.pieces[i]

\* lines 116-123: the label emitted for square i
smoothedLabel(classification, threshold, previous, i) ==
  IF classification.confidences[i] < threshold
  THEN previous[i]
  ELSE classification.pieces[i]

\* lines 113-123
smooth(classification, threshold, previous) ==
  IF previous # NoPieces
  THEN [pieces |-> [i \in Squares |-> smoothedLabel(classification, threshold, previous, i)],
        lowConfidenceSquares |->
          Cardinality({i \in Squares : classification.confidences[i] < threshold})]
  ELSE [pieces |-> classification.pieces, lowConfidenceSquares |-> 0]

\* what session.run can do: give 64 x 13 scores, give an output of another
\* length, give no data, or reject
RunOutcomes == {"logits", "bad-shape", "no-data", "rejects"}

\* runInference lines 297-309: the logits, null, or the rejection of session.run
runInference(outcome, scene) ==
  IF outcome = "rejects" THEN Throws
  ELSE IF outcome = "no-data" THEN Null
  ELSE IF outcome = "bad-shape" THEN Null
  ELSE [data |-> SceneLogits(scene)]

\* classifyDetailed lines 69-102 once the inference (if any) has answered
classifyWith(logits, scene, flip) ==
  IF logits # Null
  THEN normalize(logitsToPieces(logits.data), flip)
  ELSE normalize(heuristicPiecesFromOccupancy(preprocessBoard(SceneVariance(scene))), flip)

\* classifyWith on every scene, with and without logits, flipped or not
ClassificationTable ==
  [scene \in Scenes, viaModel \in BOOLEAN, flip \in BOOLEAN |->
     classifyWith(IF viaModel THEN [data |-> SceneLogits(scene)] ELSE Null, scene, flip)]

\* what classifyDetailed returned to a handleProcess invocation
classificationOf(t) == ClassificationTable[t.boardImage.scene, t.result.viaModel, t.msg.forceFlip]

\* the continuation of a suspended handleProcess can run
Ready(t) ==
  \/ t.pc \in {"detect", "classified", "threw"}
  \/ t.pc = "ensure" /\ (t.awaiting = Null \/ loads[t.awaiting.load] # "pending")

MicrotaskPending == \E id \in RequestIds : Ready(tasks[id])

\* the invocation has returned: its locals are gone
Finish(t, how) ==
  [IdleTask EXCEPT !.pc = "done", !.exit = how, !.wroteRegion = t.wroteRegion]

\* a catch block that reports the exception of a cancelled request too
CatchAlways(id, t, message) ==
  /\ toMain' = Append(toMain, [type |-> "error", requestId |-> id, message |-> message])
  /\ tasks' = [tasks EXCEPT ![id] = Finish(t, "error")]

\* a catch block that swallows the exception
CatchSilently(id, t, message) ==
  /\ tasks' = [tasks EXCEPT ![id] = Finish(t, "error-suppressed")]
  /\ UNCHANGED toMain

\* the catch block, lines 143-153
Catch(id, t, message) ==
  LET response == [type |-> "error", requestId |-> id, message |-> message]
  IN  IF ~isCanceled(id)
      THEN /\ toMain' = Append(toMain, response)
           /\ tasks' = [tasks EXCEPT ![id] = Finish(t, "error")]
      ELSE /\ tasks' = [tasks EXCEPT ![id] = Finish(t, "error-suppressed")]
           /\ UNCHANGED toMain

\* lines 97-106: abandon the frame, or crop it and call classifyDetailed,
\* which first calls ensureModelLoaded and awaits what it returns
CallClassify(id, t, region) ==
  IF abandons(region, id)
  THEN /\ tasks' = [tasks EXCEPT ![id] =
                      Finish(t, IF region = Null THEN "no-region" ELSE "canceled")]
       /\ UNCHANGED <<toMain, modelLoadPromise, loads>>
  ELSE LET boardImage == cropImageData(t.msg.frame, region)
       IN  IF boardImage = Throws
           THEN /\ Catch(id, t, "crop-failed")
                /\ UNCHANGED <<modelLoadPromise, loads>>
           ELSE IF skipsLoad
           THEN /\ tasks' = [tasks EXCEPT ![id] =
                      [t EXCEPT !.pc = "ensure", !.boardImage = boardImage,
                                !.awaiting = modelLoadPromise]]
                /\ UNCHANGED <<toMain, modelLoadPromise, loads>>
           ELSE /\ loads' = Append(loads, "pending")
                /\ modelLoadPromise' = [load |-> Len(loads) + 1]
                /\ tasks' = [tasks EXCEPT ![id] =
                      [t EXCEPT !.pc = "ensure", !.boardImage = boardImage,
                                !.awaiting = [load |-> Len(loads) + 1]]]
                /\ UNCHANGED toMain

\* message listener, type 'cancel'
ReceiveCancel ==
  /\ alive
  /\ ~MicrotaskPending
  /\ toWorker # <<>>
  /\ Head(toWorker).type = "cancel"
  /\ toWorker' = Tail(toWorker)
  /\ canceledRequestId' = Max(canceledRequestId, Head(toWorker).requestId)
  /\ UNCHANGED <<mainVars, toMain, clock, cachedBoardRegion, lastBoardDetectionAt,
                 previousPieces, tasks, alive, classifierVars>>
  /\ UNCHANGED componentVars

\* message listener, type 'dispose', with the synchronous part of
\* pieceClassifier.dispose(): it returns at once without a session
ReceiveDispose ==
  /\ alive
  /\ ~MicrotaskPending
  /\ toWorker # <<>>
  /\ Head(toWorker).type = "dispose"
  /\ toWorker' = Tail(toWorker)
  /\ canceledRequestId' = MAX_SAFE_INTEGER
  /\ cachedBoardRegion' = Null
  /\ previousPieces' = NoPieces
  /\ disposePc' = IF session = Null THEN "done" ELSE "releasing"
  /\ UNCHANGED <<mainVars, toMain, clock, lastBoardDetectionAt, tasks, alive,
                 session, modelLoadPromise, loads>>
  /\ UNCHANGED componentVars

\* message listener, type 'process': handleProcess up to its first await
ReceiveProcess ==
  /\ alive
  /\ ~MicrotaskPending
  /\ toWorker # <<>>
  /\ Head(toWorker).type = "process"
  /\ toWorker' = Tail(toWorker)
  /\ LET message == Head(toWorker)
         id == message.requestId
         t == [IdleTask EXCEPT !.msg = message]
     IN  IF isCanceled(id)
         THEN /\ tasks' = [tasks EXCEPT ![id] = Finish(IdleTask, "canceled-at-start")]
              /\ UNCHANGED <<toMain, modelLoadPromise, loads>>
         ELSE IF needsDetection(message.now, message.boardRefreshMs)
         THEN /\ tasks' = [tasks EXCEPT ![id] =
                    [t EXCEPT !.pc = "detect", !.detected = message.frame.board]]
              /\ UNCHANGED <<toMain, modelLoadPromise, loads>>
         ELSE CallClassify(id, t, cachedBoardRegion)
  /\ UNCHANGED <<mainVars, clock, cachedBoardRegion, lastBoardDetectionAt,
                 canceledRequestId, previousPieces, alive, session, disposePc>>
  /\ UNCHANGED componentVars

\* lines 92-106: the continuation after `await boardDetector.detect(...)`
ResumeAfterDetect(id) ==
  /\ alive
  /\ tasks[id].pc = "detect"
  /\ LET t == tasks[id]
     IN  IF t.detected = Throws
         THEN /\ Catch(id, t, "detect-failed")
              /\ UNCHANGED <<cachedBoardRegion, lastBoardDetectionAt, modelLoadPromise, loads>>
         ELSE /\ cachedBoardRegion' = t.detected
              /\ lastBoardDetectionAt' = t.msg.now
              /\ CallClassify(id, [t EXCEPT !.wroteRegion = TRUE], t.detected)
  /\ UNCHANGED <<mainVars, toWorker, clock, canceledRequestId, previousPieces, alive,
                 session, disposePc>>
  /\ UNCHANGED componentVars

\* classifyDetailed lines 64-84 after `await this.ensureModelLoaded()`:
\* with a session the call awaits session.run, without one it uses the
\* heuristic and returns
ResumeAfterEnsure(id) ==
  /\ alive
  /\ tasks[id].pc = "ensure"
  /\ Ready(tasks[id])
  /\ LET t == tasks[id]
     IN  IF session # Null
         THEN tasks' = [tasks EXCEPT ![id] = [t EXCEPT !.pc = "run", !.awaiting = Null]]
         ELSE tasks' = [tasks EXCEPT ![id] =
                 [t EXCEPT !.pc = "classified", !.awaiting = Null,
                           !.result = [viaModel |-> FALSE]]]
  /\ UNCHANGED <<mainVars, toWorker, toMain, clock, cachedBoardRegion, lastBoardDetectionAt,
                 canceledRequestId, previousPieces, alive, classifierVars>>
  /\ UNCHANGED componentVars

\* session.run settles: runInference and the rest of classifyDetailed
RunSettle(id) ==
  /\ alive
  /\ ~MicrotaskPending
  /\ tasks[id].pc = "run"
  /\ \E outcome \in RunOutcomes :
       LET t == tasks[id]
           logits == runInference(outcome, t.boardImage.scene)
       IN  IF logits = Throws
           THEN tasks' = [tasks EXCEPT ![id] =
                   [t EXCEPT !.pc = "threw", !.result = [error |-> "inference-failed"]]]
           ELSE tasks' = [tasks EXCEPT ![id] =
                   [t EXCEPT !.pc = "classified",
                             !.result = [viaModel |-> logits # Null]]]
  /\ UNCHANGED <<mainVars, toWorker, toMain, clock, cachedBoardRegion, lastBoardDetectionAt,
                 canceledRequestId, previousPieces, alive, classifierVars>>
  /\ UNCHANGED componentVars

\* lines 107-142: the continuation after `await pieceClassifier.classifyDetailed(...)`
ResumeAfterClassify(id) ==
  /\ alive
  /\ tasks[id].pc = "classified"
  /\ LET t == tasks[id]
         classification == classificationOf(t)
         smoothed == smooth(classification, t.msg.confidenceThreshold, previousPieces)
         response == [type |-> "result", requestId |-> id,
                      fen |-> piecesToFen(smoothed.pieces),
                      boardRegion |-> cachedBoardRegion,
                      confidenceAverage |-> classification.averageConfidence,
                      lowConfidenceSquares |-> smoothed.lowConfidenceSquares,
                      wasFlipped |-> classification.wasFlipped]
     IN  IF isCanceled(id)
         THEN /\ tasks' = [tasks EXCEPT ![id] = Finish(t, "canceled")]
              /\ UNCHANGED <<previousPieces, toMain>>
         ELSE /\ previousPieces' = smoothed.pieces
              /\ toMain' = Append(toMain, response)
              /\ tasks' = [tasks EXCEPT ![id] = Finish(t, "result")]
  /\ UNCHANGED <<mainVars, toWorker, clock, cachedBoardRegion, lastBoardDetectionAt,
                 canceledRequestId, alive, classifierVars>>
  /\ UNCHANGED componentVars

\* the continuation when classifyDetailed rejected: the catch block
ResumeAfterThrow(id) ==
  /\ alive
  /\ tasks[id].pc = "threw"
  /\ Catch(id, tasks[id], tasks[id].result.error)
  /\ UNCHANGED <<mainVars, toWorker, clock, cachedBoardRegion, lastBoardDetectionAt,
                 canceledRequestId, previousPieces, alive, classifierVars>>
  /\ UNCHANGED componentVars

\* InferenceSession.create settles (ensureModelLoaded lines 128-139)
LoadSettle ==
  /\ alive
  /\ ~MicrotaskPending
  /\ \E p \in 1..Len(loads) :
       /\ loads[p] = "pending"
       /\ \E created \in BOOLEAN :
            /\ session' = IF created THEN [backend |-> p] ELSE Null
            /\ loads' = [loads EXCEPT ![p] = IF created THEN "loaded" ELSE "failed"]
  /\ UNCHANGED <<mainVars, toWorker, toMain, clock, workerVars, modelLoadPromise, disposePc>>
  /\ UNCHANGED componentVars

\* session.release() settles: dispose's finally block
ReleaseSettle ==
  /\ alive
  /\ ~MicrotaskPending
  /\ disposePc = "releasing"
  /\ session' = Null
  /\ modelLoadPromise' = Null
  /\ disposePc' = "done"
  /\ UNCHANGED <<mainVars, toWorker, toMain, clock, workerVars, loads>>
  /\ UNCHANGED componentVars

\* worker.terminate() takes effect: the worker's queued messages are
\* discarded and its suspended handleProcess invocations never resume
WorkerKill ==
  /\ terminated
  /\ alive
  /\ alive' = FALSE
  /\ toWorker' = <<>>
  /\ tasks' = [id \in RequestIds |->
                 IF tasks[id].pc \in {"idle", "done"} THEN tasks[id]
                 ELSE Finish(tasks[id], "terminated")]
  /\ UNCHANGED <<mainVars, toMain, clock, cachedBoardRegion, lastBoardDetectionAt,
                 canceledRequestId, previousPieces, classifierVars>>
  /\ UNCHANGED componentVars

Next ==
  \/ Start
  \/ Stop
  \/ Destroy
  \/ SetForceFlip
  \/ HandleFrame
  \/ HandleWorkerMessage
  \/ ReceiveCancel
  \/ ReceiveDispose
  \/ ReceiveProcess
  \/ \E id \in RequestIds : ResumeAfterDetect(id)
  \/ \E id \in RequestIds : ResumeAfterEnsure(id)
  \/ \E id \in RequestIds : RunSettle(id)
  \/ \E id \in RequestIds : ResumeAfterClassify(id)
  \/ \E id \in RequestIds : ResumeAfterThrow(id)
  \/ LoadSettle
  \/ ReleaseSettle
  \/ WorkerKill

Spec == Init /\ [][Next]_vars

\* The worker's event loop does not stop while a task or microtask is ready
\* or a promise of onnxruntime is pending, and a message posted to the main
\* thread is handed to its listener.  Frames, start(), stop(), destroy() and
\* setForceFlip() need not happen.
\* a handleProcess invocation resumes after classifyDetailed and returns: a
\* ResumeAfterClassify(id) step, told by what it does to the invocation
ClassifyReturns(id) ==
  /\ alive
  /\ tasks[id].pc = "classified"
  /\ tasks' = [tasks EXCEPT ![id] =
                 Finish(tasks[id], IF isCanceled(id) THEN "canceled" ELSE "result")]

\* the main thread's listener takes a message: a HandleWorkerMessage step
MessageHandled ==
  /\ toMain # <<>>
  /\ starts > 0
  /\ toMain' = Tail(toMain)

WorkerStep ==
  \/ ReceiveCancel
  \/ ReceiveDispose
  \/ ReceiveProcess
  \/ \E id \in RequestIds : ResumeAfterDetect(id)
  \/ \E id \in RequestIds : ResumeAfterEnsure(id)
  \/ \E id \in RequestIds : RunSettle(id)
  \/ \E id \in RequestIds : ResumeAfterThrow(id)
  \/ LoadSettle
  \/ ReleaseSettle

Fairness ==
  /\ WF_vars(WorkerStep)
  /\ WF_tasks(\E id \in RequestIds : ClassifyReturns(id))
  /\ WF_toMain(MessageHandled)

LiveSpec == Spec /\ Fairness

(***************************************************************************)
(* The pipeline under the ContentController, which stops it and starts it  *)
(* again in one call when the page shows another video element.            *)
(***************************************************************************)
\* calls of scanAndAttachVideo that find another video element
MaxReattach == 1

\* scanAndAttachVideo() finding a video element other than currentVideo
\* while one is tracked: pipeline.stop(), then pipeline.start(videoElement,
\* onUpdate)
ScanAndAttachVideo ==
  /\ running
  /\ starts < MaxStarts + MaxReattach
  /\ lastFen' = NoFen
  /\ toWorker' = cancelLatest(toWorker)
  /\ lastDeliveredAt' = 0
  /\ running' = TRUE
  /\ starts' = starts + 1
  /\ UNCHANGED <<latestRequestId, forceFlip, terminated, flips, updates,
                 toMain, clock, workerVars, classifierVars>>
  /\ UNCHANGED componentVars

RestartNext ==
  \/ Next
  \/ ScanAndAttachVideo

RestartSpec == Init /\ [][RestartNext]_vars

(***************************************************************************)
(* ChangeDetector on its own: detect() and reset() called in any order on  *)
(* FENs chosen to differ in 0, 2, 10, 11 and 32 squares.                   *)
(***************************************************************************)
\* calls made on the detector
MaxObservations == 4

EmptyPieces == [sq \in Squares |-> "1"]

\* the start position after e2-e4 (square 52 to square 36)
E4Pieces == [StartPieces EXCEPT ![52] = "1", ![36] = "P"]

\* the start position without the ten black pieces on squares 0..9
Minus10Pieces == [sq \in Squares |-> IF sq < 10 THEN "1" ELSE StartPieces[sq]]

\* the position after e2-e4 without the eleven black pieces on squares 0..10
E4Minus11Pieces == [sq \in Squares |-> IF sq < 11 THEN "1" ELSE E4Pieces[sq]]

\* 8/8/8/8/8/8/8/8
EmptyBoard ==
  <<"8", "/", "8", "/", "8", "/", "8", "/", "8", "/", "8", "/", "8", "/", "8">>

\* rnbqkbnr/pppppppp/8/8/8/8/PPPPPPPP/RNBQKBNR
StartBoard ==
  <<"r", "n", "b", "q", "k", "b", "n", "r", "/",
    "p", "p", "p", "p", "p", "p", "p", "p", "/",
    "8", "/", "8", "/", "8", "/", "8", "/",
    "P", "P", "P", "P", "P", "P", "P", "P", "/",
    "R", "N", "B", "Q", "K", "B", "N", "R">>

\* the FENs detect() is called with: two bare board parts and four FENs as
\* piecesToFen writes them
ObservedFens ==
  { EmptyBoard, StartBoard,
    piecesToFen(StartPieces), piecesToFen(E4Pieces),
    piecesToFen(Minus10Pieces), piecesToFen(E4Minus11Pieces) }

\* detect(currentFen)
ChangeDetect ==
  /\ Len(observations) < MaxObservations
  /\ \E currentFen \in ObservedFens :
       /\ lastFen' = detectLastFen(lastFen, currentFen)
       /\ observations' = Append(observations,
            [op |-> "detect", fen |-> currentFen, before |-> lastFen,
             type |-> detectType(lastFen, currentFen),
             diff |-> detectDiff(lastFen, currentFen),
             after |-> detectLastFen(lastFen, currentFen)])
  /\ UNCHANGED <<running, latestRequestId, lastDeliveredAt, forceFlip, terminated, starts,
                 flips, updates, toWorker, toMain, clock, workerVars, classifierVars, call>>
  /\ UNCHANGED laterVars

\* reset()
ChangeReset ==
  /\ Len(observations) < MaxObservations
  /\ lastFen' = NoFen
  /\ observations' = Append(observations,
       [op |-> "reset", fen |-> NoFen, before |-> lastFen, type |-> None,
        diff |-> -1, after |-> NoFen])
  /\ UNCHANGED <<running, latestRequestId, lastDeliveredAt, forceFlip, terminated, starts,
                 flips, updates, toWorker, toMain, clock, workerVars, classifierVars, call>>
  /\ UNCHANGED laterVars

ChangeNext ==
  \/ ChangeDetect
  \/ ChangeReset

ChangeSpec == Init /\ [][ChangeNext]_vars

(***************************************************************************)
(* board-detector.ts.  The pixel stages of detect() (downsampleLuminance,  *)
(* computeEdgeStrength, percentileThreshold, binarize, closeMask and the   *)
(* flood fill of findBestSquareComponent) are abstracted to their outcome: *)
(* the connected components of the closed mask in scan order, each with    *)
(* its bounding box and pixel count.  closeMask's erosion clears the       *)
(* outermost rows and columns, so a box lies within 1..sw-2 by 1..sh-2.    *)
(* Fractions are exact: a scale is num/den, 0.06 and 0.07 are percents.    *)
(***************************************************************************)
\* DEFAULT_OPTIONS of the detector
MIN_COVERAGE_PERCENT == 6
maxInputDimension == 360
OCCLUSION_PADDING_PERCENT == 7
\* the smallest width and height detect() works on, also of the downsampled frame
MIN_DIMENSION == 32

\* Math.round(n / d) for d > 0: the nearest integer, a half goes up
RoundDiv(n, d) == (2 * n + d) \div (2 * d)

Abs(n) == IF n < 0 THEN 0 - n ELSE n

\* line 34: scale = min(1, maxInputDimension / max(width, height))
scaleOf(width, height) ==
  IF Max(width, height) <= maxInputDimension
  THEN [num |-> 1, den |-> 1]
  ELSE [num |-> maxInputDimension, den |-> Max(width, height)]

\* lines 35-36: max(32, floor(dimension * scale))
downsampled(dimension, scale) ==
  Max(MIN_DIMENSION, (dimension * scale.num) \div scale.den)

\* lines 230-236: score = area * squareness * fill, as a fraction
scoreOf(c) ==
  [num |-> c.pixels * Max(0, c.boxHeight - Abs(c.boxHeight - c.boxWidth)),
   den |-> c.boxHeight]

\* a comparison that lets a later component of equal score replace the best
scoreAtLeast(a, b) == a.num * b.den >= b.num * a.den

\* line 239: score > best.score
scoreGreater(a, b) == a.num * b.den > b.num * a.den

\* lines 177-250: the first component with the greatest score
RECURSIVE bestFrom(_, _, _)
bestFrom(components, i, best) ==
  IF i > Len(components) THEN best
  ELSE IF scoreGreater(scoreOf(components[i]), scoreOf(best))
  THEN bestFrom(components, i + 1, components[i])
  ELSE bestFrom(components, i + 1, best)

\* lines 252-266
findBestSquareComponent(components, width, height) ==
  IF components = <<>> THEN Null
  ELSE LET best == bestFrom(components, 2, components[1])
           side == RoundDiv(best.boxWidth + best.boxHeight, 2)
       IN  [x |-> Max(0, RoundDiv(2 * best.minX + best.boxWidth - side, 2)),
            y |-> Max(0, RoundDiv(2 * best.minY + best.boxHeight - side, 2)),
            width |-> Min(width, side),
            height |-> Min(height, side)]

\* lines 144-166; the coverage is width * height over the frame's area
expandForCornerOcclusion(candidate, width, height) ==
  LET side == Max(candidate.width, candidate.height)
      pad == RoundDiv(side * OCCLUSION_PADDING_PERCENT, 100)
      paddedSide == Min(side + pad * 2, Min(width, height))
  IN  [x |-> Max(0, Min(width - paddedSide,
                        RoundDiv(2 * candidate.x + candidate.width - paddedSide, 2))),
       y |-> Max(0, Min(height - paddedSide,
                        RoundDiv(2 * candidate.y + candidate.height - paddedSide, 2))),
       width |-> paddedSide,
       height |-> paddedSide]

\* the size test that lets every frame through
tooSmallNever(width, height) == FALSE

\* line 30
tooSmall(width, height) == width < MIN_DIMENSION \/ height < MIN_DIMENSION

\* line 50: adjusted.coverage < minCoverage
belowMinCoverage(adjusted, sw, sh) ==
  adjusted.width * adjusted.height * 100 < MIN_COVERAGE_PERCENT * sw * sh

\* lines 54-59: Math.floor(value / scale)
unscale(value, scale) == (value * scale.den) \div scale.num

\* detect(): the region returned (or null) and how far detect() went:
\* "rejected" at line 31 before any pixel is read, "no-candidate" at line 45,
\* "low-coverage" at line 51, "region" at line 54
detect(frame) ==
  IF tooSmall(frame.width, frame.height)
  THEN [region |-> Null, stage |-> "rejected"]
  ELSE LET scale == scaleOf(frame.width, frame.height)
           sw == downsampled(frame.width, scale)
           sh == downsampled(frame.height, scale)
           candidate == findBestSquareComponent(frame.components, sw, sh)
           adjusted == expandForCornerOcclusion(candidate, sw, sh)
       IN  IF candidate = Null THEN [region |-> Null, stage |-> "no-candidate"]
           ELSE IF belowMinCoverage(adjusted, sw, sh)
           THEN [region |-> Null, stage |-> "low-coverage"]
           ELSE [region |-> [x |-> unscale(adjusted.x, scale),
                             y |-> unscale(adjusted.y, scale),
                             width |-> unscale(adjusted.width, scale),
                             height |-> unscale(adjusted.height, scale)],
                 stage |-> "region"]

\* widths and heights of the frames given to detect()
FrameDimensions == {16, 31, 32, 48, 360, 400, 1280}

\* sides of the bounding boxes in a mask of sw by sh, and where a box of
\* that side starts along an axis
BoxSides(sw, sh) == {12, 25, Min(sw, sh) - 2}
BoxStarts(dimension, side) == {1, (dimension - side) \div 2, dimension - 1 - side}

\* the components a mask of sw by sh can have: a bounding box, with the
\* fewest pixels that can span it or filled
ComponentsIn(sw, sh) ==
  UNION { UNION { { [minX |-> x, minY |-> y, boxWidth |-> w, boxHeight |-> h, pixels |-> n] :
                      x \in BoxStarts(sw, w), y \in BoxStarts(sh, h),
                      n \in {w + h - 1, w * h} } :
                  h \in BoxSides(sw, sh) } :
          w \in BoxSides(sw, sh) }

\* a second, small component later in scan order
LaterComponents(sw, sh) ==
  { [minX |-> sw - 14, minY |-> sh - 14, boxWidth |-> 12, boxHeight |-> 12, pixels |-> 144],
    [minX |-> 2, minY |-> sh - 14, boxWidth |-> 25, boxHeight |-> 12, pixels |-> 36] }

\* the frames of one size: no component, one, or two
FramesOfSize(width, height) ==
  LET scale == scaleOf(width, height)
      sw == downsampled(width, scale)
      sh == downsampled(height, scale)
      lists == {<<>>} \cup {<<c>> : c \in ComponentsIn(sw, sh)}
                 \cup {<<c, d>> : c \in ComponentsIn(sw, sh), d \in LaterComponents(sw, sh)}
  IN  {[width |-> width, height |-> height, components |-> l] : l \in lists}

DetectorFrames ==
  UNION {FramesOfSize(width, height) : width \in FrameDimensions, height \in FrameDimensions}

\* boardDetector.detect(imageData) called once
CallDetect ==
  /\ call = NoCall
  /\ \E frame \in DetectorFrames :
       call' = [fn |-> "detect", frame |-> frame,
                region |-> detect(frame).region, stage |-> detect(frame).stage]
  /\ UNCHANGED <<mainVars, toWorker, toMain, clock, workerVars, classifierVars, observations>>
  /\ UNCHANGED laterVars

\* the size of the masks findBestSquareComponent is called with on its own;
\* on masks of two rows the fractions of scoreOf order the components as
\* the doubles of lines 232-236 do
MaskWidth == 4
MaskHeight == 2
MaskCells == 0..(MaskWidth * MaskHeight - 1)
Masks == [MaskCells -> {0, 1}]

\* lines 211-216: the four neighbours in the order they are visited
neighbors(x, y) == <<<<x - 1, y>>, <<x + 1, y>>, <<x, y - 1>>, <<x, y + 1>>>>

\* lines 218-230: the neighbours from the k-th on that are inside the mask,
\* set and not visited are marked and appended to the queue
RECURSIVE enqueue(_, _, _, _, _, _)
enqueue(mask, width, height, ns, k, fill) ==
  IF k > Len(ns) THEN fill
  ELSE LET nx == ns[k][1]
           ny == ns[k][2]
           nIdx == ny * width + nx
       IN  IF nx < 0 \/ ny < 0 \/ nx >= width \/ ny >= height
           THEN enqueue(mask, width, height, ns, k + 1, fill)
           ELSE IF mask[nIdx] = 0 \/ nIdx \in fill.visited
           THEN enqueue(mask, width, height, ns, k + 1, fill)
           ELSE enqueue(mask, width, height, ns, k + 1,
                        [fill EXCEPT !.visited = @ \cup {nIdx},
                                     !.queue = Append(@, <<nx, ny>>)])

\* lines 197-231: while (qStart < qEnd); qStart counts from 1 here
RECURSIVE floodFill(_, _, _, _)
floodFill(mask, width, height, fill) ==
  IF fill.qStart > Len(fill.queue) THEN fill
  ELSE LET x == fill.queue[fill.qStart][1]
           y == fill.queue[fill.qStart][2]
           taken == [fill EXCEPT !.qStart = @ + 1,
                                 !.pixels = @ + 1,
                                 !.minX = Min(@, x), !.maxX = Max(@, x),
                                 !.minY = Min(@, y), !.maxY = Max(@, y)]
       IN  floodFill(mask, width, height,
                     enqueue(mask, width, height, neighbors(x, y), 1, taken))

\* lines 177-238: the scan over the start pixels; every pixel that is set
\* and not visited starts a component, measured when its fill ends
RECURSIVE scanFrom(_, _, _, _, _, _)
scanFrom(mask, width, height, startIdx, visited, found) ==
  IF startIdx = width * height THEN found
  ELSE IF mask[startIdx] = 0 \/ startIdx \in visited
  THEN scanFrom(mask, width, height, startIdx + 1, visited, found)
  ELSE LET startX == startIdx % width
           startY == startIdx \div width
           fill == floodFill(mask, width, height,
                     [queue |-> <<<<startX, startY>>>>, qStart |-> 1,
                      visited |-> visited \cup {startIdx},
                      minX |-> startX, maxX |-> startX,
                      minY |-> startY, maxY |-> startY, pixels |-> 0])
       IN  scanFrom(mask, width, height, startIdx + 1, fill.visited,
                    Append(found,
                      [minX |-> fill.minX, minY |-> fill.minY,
                       boxWidth |-> fill.maxX - fill.minX + 1,
                       boxHeight |-> fill.maxY - fill.minY + 1,
                       pixels |-> fill.pixels, startIdx |-> startIdx]))

\* lines 175-250 on a mask: `best` when the scan ends, Null without a
\* component
bestOfMask(mask, width, height) ==
  LET found == scanFrom(mask, width, height, 0, {}, <<>>)
  IN  IF found = <<>> THEN [none |-> TRUE]
      ELSE [none |-> FALSE, component |-> bestFrom(found, 2, found[1])]

\* findBestSquareComponent(mask, width, height) called once
CallFindBestSquareComponent ==
  /\ call = NoCall
  /\ \E mask \in Masks :
       call' = [fn |-> "findBestSquareComponent", mask |-> mask,
                best |-> bestOfMask(mask, MaskWidth, MaskHeight)]
  /\ UNCHANGED <<mainVars, toWorker, toMain, clock, workerVars, classifierVars, observations>>
  /\ UNCHANGED laterVars

DetectorNext ==
  \/ CallDetect
  \/ CallFindBestSquareComponent

DetectorSpec == Init /\ [][DetectorNext]_vars

(***************************************************************************)
(* fen-utils on its own: fenToPieces, piecesToFen and rotatePieces180      *)
(* called once on a board part or a label array.                           *)
(***************************************************************************)
\* the ranks the board parts are made of; the last four are not ranks of 8
\* squares written the way piecesToFen writes them
RankStrings ==
  { <<"8">>,
    <<"p", "p", "p", "p", "p", "p", "p", "p">>,
    <<"R", "N", "B", "Q", "K", "B", "N", "R">>,
    <<"4", "P", "3">>,
    <<"1", "p", "1", "p", "1", "p", "1", "p">>,
    <<"q", "7">>,
    <<"7", "K">>,
    <<"3", "n", "B", "2", "r">>,
    <<"4", "4">>,
    <<"p", "8">>,
    <<"3", "x", "4">>,
    <<"9">> }

\* ranks.join('/')
RECURSIVE joined(_, _)
joined(ranks, i) ==
  IF i = Len(ranks) THEN ranks[i] ELSE ranks[i] \o <<"/">> \o joined(ranks, i + 1)

\* the board parts given to fenToPieces: one rank differs from the seven
\* others; also a board of seven ranks and a FEN with its later fields
BoardParts ==
  { joined([i \in 1..8 |-> IF i = r THEN a ELSE b], 1) :
      r \in 1..8, a \in RankStrings, b \in RankStrings }
  \cup { joined([i \in 1..7 |-> <<"8">>], 1), <<" ">> \o piecesToFen(E5Pieces) }

\* the label arrays given to piecesToFen and rotatePieces180: one piece on
\* an empty board, and five positions
PieceArrays ==
  { [sq \in Squares |-> IF sq = k THEN PIECE_LABELS[c] ELSE "1"] : k \in Squares, c \in 2..13 }
  \cup { EmptyPieces, StartPieces, E5Pieces, E4Pieces, Minus10Pieces }

\* fenToPieces(fen)
CallFenToPieces ==
  /\ call = NoCall
  /\ \E fen \in BoardParts :
       call' = [fn |-> "fenToPieces", fen |-> fen, pieces |-> fenToPieces(fen)]
  /\ UNCHANGED <<mainVars, toWorker, toMain, clock, workerVars, classifierVars, observations>>
  /\ UNCHANGED laterVars

\* piecesToFen(pieces)
CallPiecesToFen ==
  /\ call = NoCall
  /\ \E pieces \in PieceArrays :
       call' = [fn |-> "piecesToFen", pieces |-> pieces, fen |-> piecesToFen(pieces)]
  /\ UNCHANGED <<mainVars, toWorker, toMain, clock, workerVars, classifierVars, observations>>
  /\ UNCHANGED laterVars

\* rotatePieces180(pieces)
CallRotatePieces180 ==
  /\ call = NoCall
  /\ \E pieces \in PieceArrays :
       call' = [fn |-> "rotatePieces180", pieces |-> pieces, out |-> rotatePieces180(pieces)]
  /\ UNCHANGED <<mainVars, toWorker, toMain, clock, workerVars, classifierVars, observations>>
  /\ UNCHANGED laterVars

FenNext ==
  \/ CallFenToPieces
  \/ CallPiecesToFen
  \/ CallRotatePieces180

FenSpec == Init /\ [][FenNext]_vars

(***************************************************************************)
(* PieceClassifier.classifyDetailed on its own, once the model has         *)
(* answered or was found missing: a board image is given by the luminance  *)
(* variance of its 64 tiles and by the scores the model gives it.          *)
(***************************************************************************)
\* luminance variances of a tile, in 10^-8: uniform, 0.003136, 0.0064 (a
\* standard deviation of exactly 0.08), 0.01, 0.08 and 0.09
TileVariances == {0, 313600, 640000, 1000000, 8000000, 9000000}

\* the start position with one tile of another variance
ClassifierImages ==
  { [SceneVariance("start") EXCEPT ![k] = v] : k \in Squares, v \in TileVariances }

\* classifyDetailed(boardImage, {forceFlip}) without a session or with a
\* model answer that is not usable (heuristic), or with the model's scores
CallClassifyDetailed ==
  /\ call = NoCall
  /\ \/ \E variance \in ClassifierImages, flip \in BOOLEAN :
          LET raw == heuristicPiecesFromOccupancy(preprocessBoard(variance))
          IN  call' = [fn |-> "classifyDetailed", viaModel |-> FALSE, variance |-> variance,
                       forceFlip |-> flip, raw |-> raw, result |-> normalize(raw, flip)]
     \/ \E scene \in Scenes, flip \in BOOLEAN :
          LET raw == logitsToPieces(SceneLogits(scene))
          IN  call' = [fn |-> "classifyDetailed", viaModel |-> TRUE,
                       variance |-> SceneVariance(scene),
                       forceFlip |-> flip, raw |-> raw, result |-> normalize(raw, flip)]
  /\ UNCHANGED <<mainVars, toWorker, toMain, clock, workerVars, classifierVars, observations>>
  /\ UNCHANGED laterVars

ClassifierNext == CallClassifyDetailed

ClassifierSpec == Init /\ [][ClassifierNext]_vars

(***************************************************************************)
(* shared/settings.ts.  A JavaScript value is a tagged record; a number is  *)
(* counted in hundredths (1.5 is 150), NaN is a number of its own.          *)
(***************************************************************************)
Num(h) == [kind |-> "number", nan |-> FALSE, v |-> h]
NaN == [kind |-> "number", nan |-> TRUE, v |-> 0]
Str(text) == [kind |-> "string", s |-> text]
Bool(b) == [kind |-> "boolean", b |-> b]

Fields ==
  {"scanFrequencySec", "engineDepth", "boardTheme", "autoSync", "showEvalBar",
   "showBestMoveArrow", "uiTheme", "forceFlipBoard", "showPerformanceStats"}

FlagFields ==
  {"autoSync", "showEvalBar", "showBestMoveArrow", "forceFlipBoard", "showPerformanceStats"}

DEFAULT_SETTINGS ==
  [scanFrequencySec |-> Num(150),
   engineDepth |-> Num(2000),
   boardTheme |-> Str("green"),
   autoSync |-> Bool(TRUE),
   showEvalBar |-> Bool(TRUE),
   showBestMoveArrow |-> Bool(TRUE),
   uiTheme |-> Str("dark"),
   forceFlipBoard |-> Bool(FALSE),
   showPerformanceStats |-> Bool(FALSE)]

SCAN_MIN == 50
SCAN_MAX == 300
DEPTH_MIN == 1000
DEPTH_MAX == 2400

BOARD_THEMES == {"green", "brown", "blue", "gray"}
UI_THEMES == {"dark", "light"}

\* Math.max(min, Math.min(max, value)): NaN if value is NaN
clamp(value, min, max) ==
  IF value.nan THEN NaN ELSE Num(Max(min, Min(max, value.v)))

\* Math.round(x * 10) / 10 and Math.round(x) of a positive number or NaN
roundToTenth(x) == IF x.nan THEN NaN ELSE Num(RoundDiv(x.v, 10) * 10)
roundToUnit(x) == IF x.nan THEN NaN ELSE Num(RoundDiv(x.v, 100) * 100)

\* candidate ?? {} and the reading of a property of it
fieldOf(candidate, f) ==
  IF candidate = Null \/ candidate = Undefined THEN Undefined
  ELSE IF f \in DOMAIN candidate THEN candidate[f] ELSE Undefined

isNumber(x) == x # Null /\ x # Undefined /\ x.kind = "number"
isBoolean(x) == x # Null /\ x # Undefined /\ x.kind = "boolean"
\* x && SET.has(x)
isOneOf(x, names) == x # Null /\ x # Undefined /\ x.kind = "string" /\ x.s \in names

sanitizeSettings(candidate) ==
  [f \in Fields |->
     LET x == fieldOf(candidate, f)
     IN  IF f = "scanFrequencySec"
         THEN (IF isNumber(x) THEN roundToTenth(clamp(x, SCAN_MIN, SCAN_MAX))
               ELSE DEFAULT_SETTINGS[f])
         ELSE IF f = "engineDepth"
         THEN (IF isNumber(x) THEN roundToUnit(clamp(x, DEPTH_MIN, DEPTH_MAX))
               ELSE DEFAULT_SETTINGS[f])
         ELSE IF f = "boardTheme"
         THEN (IF isOneOf(x, BOARD_THEMES) THEN x ELSE DEFAULT_SETTINGS[f])
         ELSE IF f = "uiTheme"
         THEN (IF isOneOf(x, UI_THEMES) THEN x ELSE DEFAULT_SETTINGS[f])
         ELSE (IF isBoolean(x) THEN x ELSE DEFAULT_SETTINGS[f])]

\* { ...current, ...settings }
spread(current, settings) ==
  [f \in Fields |-> IF f \in DOMAIN settings THEN settings[f] ELSE current[f]]

\* what chrome.storage.local keeps of a value it is given: the value, or its
\* JSON form, in which NaN is null
storedForms(settings) ==
  { settings, [f \in Fields |-> IF settings[f] = NaN THEN Null ELSE settings[f]] }

\* calls of loadSettings and saveSettings
MaxSettingsCalls == 2

\* the values a property of a candidate takes
FieldValues ==
  { Null, Undefined, NaN, Bool(TRUE), Bool(FALSE) }
  \cup { Num(h) : h \in {-1000000, 0, 49, 50, 54, 55, 150, 300, 301, 999, 1000, 1049,
                         1050, 2400, 2401, 1000000} }
  \cup { Str(text) : text \in {"", "green", "brown", "blue", "gray", "dark", "light",
                               "purple", "1.5"} }

\* sanitizeSettings is called on its own, or the storage functions are.
\* The candidates given to sanitizeSettings: null, undefined, {}, and the
\* defaults with one property or both numbers replaced
Candidates ==
  { Null, Undefined, <<>> }
  \cup { [DEFAULT_SETTINGS EXCEPT ![f] = x] : f \in Fields, x \in FieldValues }
  \cup { [DEFAULT_SETTINGS EXCEPT !["scanFrequencySec"] = x, !["engineDepth"] = y] :
           x \in {NaN, Num(49), Num(301)}, y \in {NaN, Num(999), Num(2450)} }

\* the patches given to saveSettings, as the settings panel builds them:
\* one property each
Patches ==
  { f :> x : f \in {"scanFrequencySec", "engineDepth"},
             x \in {NaN, Num(0), Num(74), Num(250), Num(1249), Num(1250), Num(1000000)} }
  \cup { "boardTheme" :> Str("blue"), "uiTheme" :> Str("light"), "uiTheme" :> Str("purple"),
         "autoSync" :> Bool(FALSE), "forceFlipBoard" :> Bool(TRUE), "autoSync" :> Undefined }

\* sanitizeSettings(candidate)
CallSanitizeSettings ==
  /\ call = NoCall
  /\ settingsCalls = <<>>
  /\ \E candidate \in Candidates :
       call' = [fn |-> "sanitizeSettings", candidate |-> candidate,
                returned |-> sanitizeSettings(candidate)]
  /\ UNCHANGED <<mainVars, toWorker, toMain, clock, workerVars, classifierVars, observations>>
  /\ UNCHANGED laterVars

\* loadSettings(): the storage answers and the stored value is sanitized
LoadSettings ==
  /\ call = NoCall
  /\ Len(settingsCalls) < MaxSettingsCalls
  /\ settingsCalls' = Append(settingsCalls,
       [fn |-> "loadSettings", pc |-> "done", patch |-> <<>>,
        current |-> sanitizeSettings(stored), returned |-> sanitizeSettings(stored)])
  /\ UNCHANGED <<mainVars, toWorker, toMain, clock, workerVars, classifierVars,
                 observations, call, stored, requestEpoch>>
  /\ UNCHANGED otherDrivenVars

\* saveSettings(settings) up to the end of its loadSettings: the storage
\* answers `get`, the merged settings are handed to `set`
SaveSettingsBegin ==
  /\ call = NoCall
  /\ Len(settingsCalls) < MaxSettingsCalls
  /\ \E patch \in Patches :
       LET current == sanitizeSettings(stored)
       IN  settingsCalls' = Append(settingsCalls,
             [fn |-> "saveSettings", pc |-> "set", patch |-> patch,
              current |-> current, returned |-> sanitizeSettings(spread(current, patch))])
  /\ UNCHANGED <<mainVars, toWorker, toMain, clock, workerVars, classifierVars,
                 observations, call, stored, requestEpoch>>
  /\ UNCHANGED otherDrivenVars

\* saveSettings: chrome.storage.local.set has written and the call returns
SaveSettingsEnd(k) ==
  /\ settingsCalls[k].pc = "set"
  /\ stored' \in storedForms(settingsCalls[k].returned)
  /\ settingsCalls' = [settingsCalls EXCEPT ![k].pc = "done"]
  /\ UNCHANGED <<mainVars, toWorker, toMain, clock, workerVars, classifierVars,
                 observations, call, requestEpoch>>
  /\ UNCHANGED otherDrivenVars

SettingsNext ==
  \/ CallSanitizeSettings
  \/ LoadSettings
  \/ SaveSettingsBegin
  \/ \E k \in 1..Len(settingsCalls) : SaveSettingsEnd(k)

SettingsSpec == Init /\ [][SettingsNext]_vars

(***************************************************************************)
(* StockfishEngine, driven by its callers (the panel), and the Stockfish   *)
(* process behind its worker.  Every call of a public method and every     *)
(* message event is one task of the event loop; the continuation of an     *)
(* `await` on a promise that is already settled runs in the same task.     *)
(***************************************************************************)
\* evaluate() calls made
MaxEvaluations == 3
\* 'info' lines one search emits before its bestmove
MaxInfoLines == 1
\* the principal variations the engine numbers (setoption MultiPV)
MaxMultiPV == 2

\* the positions given to evaluate()
EngineFens == {"fenA", "fenB"}

\* a command posted to the worker.  request is history: the evaluate() call
\* that sent a 'go'
Command(cmd, fen, request) == [cmd |-> cmd, fen |-> fen, request |-> request]

\* a line posted by the worker.  The moves of an 'info' or 'bestmove' line
\* are represented by the position they were computed for; search is
\* history: the 'go' that started the search that emitted the line
Line(kind, multipv, hasPv, position, search) ==
  [kind |-> kind, multipv |-> multipv, hasPv |-> hasPv,
   position |-> position, search |-> search]

\* this.worker?.postMessage(command)
send(queue, command) == IF worker = Null THEN queue ELSE Append(queue, command)

\* parseInfoLine(line): null without a depth and a pv
parseInfoLine(line) ==
  IF ~line.hasPv THEN Null
  ELSE [multipv |-> line.multipv, position |-> line.position, search |-> line.search]

\* [...pending.lines.values()].sort((a, b) => a.multipv - b.multipv)
RECURSIVE sortedByMultipv(_, _)
sortedByMultipv(lines, keys) ==
  IF keys = {} THEN <<>>
  ELSE LET m == CHOOSE x \in keys : \A y \in keys : x <= y
       IN  <<lines[m]>> \o sortedByMultipv(lines, keys \ {m})

\* .slice(0, 3)
topLines(lines) ==
  LET sorted == sortedByMultipv(lines, DOMAIN lines)
  IN  SubSeq(sorted, 1, IF Len(sorted) < 3 THEN Len(sorted) ELSE 3)

\* the fields cancelPending and the body of evaluate read and write
engineFields ==
  [pendingEval |-> pendingEval, requestId |-> engineRequestId,
   toEngine |-> toEngine, evaluations |-> evaluations, stopsPosted |-> stopsPosted]

\* cancelPending() that neither posts 'stop' nor rejects
cancelPendingQuietly(e) == [e EXCEPT !.pendingEval = Null]

\* cancelPending()
cancelPending(e) ==
  IF e.pendingEval = Null THEN e
  ELSE [e EXCEPT !.pendingEval = Null,
                 !.toEngine = send(@, Command("stop", None, 0)),
                 !.stopsPosted = IF worker = Null THEN @ ELSE @ + 1,
                 !.evaluations[e.pendingEval.call] =
                    [@ EXCEPT !.state = "rejected", !.reason = "AbortError"]]

\* evaluate() after `await this.init()` without cancelPending()
evaluateOverPending(e, k) ==
  LET requestId == e.requestId + 1
  IN  [e EXCEPT !.requestId = requestId,
                !.pendingEval = [requestId |-> requestId, fen |-> e.evaluations[k].fen,
                                 lines |-> <<>>, call |-> k],
                !.toEngine = send(send(@, Command("position", e.evaluations[k].fen, 0)),
                                  Command("go", None, requestId)),
                !.evaluations[k] = [@ EXCEPT !.state = "pending", !.requestId = requestId]]

\* evaluate() after `await this.init()`, for the k-th call
evaluateAfterInit(e, k) == evaluateOverPending(cancelPending(e), k)

\* the evaluate() calls that wait for readyPromise, resumed in call order
RECURSIVE resumeFrom(_, _)
resumeFrom(e, k) ==
  IF k > Len(e.evaluations) THEN e
  ELSE IF e.evaluations[k].state = "awaiting" THEN resumeFrom(evaluateAfterInit(e, k), k + 1)
  ELSE resumeFrom(e, k + 1)

\* the evaluate() calls that wait for readyPromise see it rejected
failAwaiting(calls) ==
  [k \in 1..Len(calls) |->
     IF calls[k].state = "awaiting"
       THEN [calls[k] EXCEPT !.state = "rejected", !.reason = "worker-failed"]
       ELSE calls[k]]

\* the evaluate() calls that wait for a readyPromise nothing can settle any
\* more: stop() dropped its resolve and reject and terminated the worker
strandAwaiting(calls) ==
  [k \in 1..Len(calls) |->
     IF calls[k].state = "awaiting" THEN [calls[k] EXCEPT !.state = "stranded"]
     ELSE calls[k]]

NewEvaluation(fen, state) ==
  [fen |-> fen, state |-> state, reason |-> None, requestId |-> 0, result |-> Null]

EngineAssign(e) ==
  /\ pendingEval' = e.pendingEval
  /\ engineRequestId' = e.requestId
  /\ toEngine' = e.toEngine
  /\ evaluations' = e.evaluations
  /\ stopsPosted' = e.stopsPosted

EngineRest ==
  UNCHANGED <<pipelineVars, observations, call, settingsVars, requestEpoch, inThreadVars,
              panelVars>>

\* init() called on its own (the panel's constructor), no readyPromise yet
EngineInit ==
  /\ readyPromise = Null
  /\ worker' = [worker |-> "stockfish"]
  /\ readyPromise' = [promise |-> "pending"]
  /\ toEngine' = Append(toEngine, Command("uci", None, 0))
  /\ UNCHANGED <<pendingEval, engineRequestId, fromEngine, engine, evaluations, stopsPosted>>
  /\ EngineRest

\* evaluate(fen): init(), and the rest of it at once when readyPromise is
\* already settled
Evaluate ==
  /\ Len(evaluations) < MaxEvaluations
  /\ \E fen \in EngineFens :
       LET k == Len(evaluations) + 1
       IN  \/ /\ readyPromise = Null
              /\ worker' = [worker |-> "stockfish"]
              /\ readyPromise' = [promise |-> "pending"]
              /\ toEngine' = Append(toEngine, Command("uci", None, 0))
              /\ evaluations' = Append(evaluations, NewEvaluation(fen, "awaiting"))
              /\ UNCHANGED <<pendingEval, engineRequestId, stopsPosted>>
           \/ /\ readyPromise = [promise |-> "pending"]
              /\ evaluations' = Append(evaluations, NewEvaluation(fen, "awaiting"))
              /\ UNCHANGED <<worker, readyPromise, pendingEval, engineRequestId,
                             toEngine, stopsPosted>>
           \/ /\ readyPromise = [promise |-> "rejected"]
              /\ evaluations' = Append(evaluations,
                   [NewEvaluation(fen, "rejected") EXCEPT !.reason = "worker-failed"])
              /\ UNCHANGED <<worker, readyPromise, pendingEval, engineRequestId,
                             toEngine, stopsPosted>>
           \/ /\ readyPromise = [promise |-> "resolved"]
              /\ EngineAssign(evaluateAfterInit(
                   [engineFields EXCEPT
                      !.evaluations = Append(@, NewEvaluation(fen, "awaiting"))], k))
              /\ UNCHANGED <<worker, readyPromise>>
  /\ UNCHANGED <<fromEngine, engine>>
  /\ EngineRest

\* cancelPending() with an evaluation pending
CancelPending ==
  /\ pendingEval # Null
  /\ EngineAssign(cancelPending(engineFields))
  /\ UNCHANGED <<worker, readyPromise, fromEngine, engine>>
  /\ EngineRest

\* stop() with a worker: terminate() empties both directions of the channel
EngineStop ==
  /\ worker # Null
  /\ LET e == cancelPending(engineFields)
     IN  /\ pendingEval' = e.pendingEval
         /\ engineRequestId' = e.requestId
         /\ stopsPosted' = e.stopsPosted
         /\ evaluations' = strandAwaiting(e.evaluations)
  /\ toEngine' = <<>>
  /\ fromEngine' = <<>>
  /\ engine' = IdleEngine
  /\ worker' = Null
  /\ readyPromise' = Null
  /\ EngineRest

\* the worker's 'error' event while readyPromise is pending
WorkerError ==
  /\ worker # Null
  /\ readyPromise = [promise |-> "pending"]
  /\ readyPromise' = [promise |-> "rejected"]
  /\ evaluations' = failAwaiting(evaluations)
  /\ UNCHANGED <<worker, pendingEval, engineRequestId, toEngine, fromEngine,
                 engine, stopsPosted>>
  /\ EngineRest

\* handleLine(line) for the next line of the worker, and the evaluate()
\* calls that 'readyok' resumes
HandleLine ==
  /\ fromEngine # <<>>
  /\ fromEngine' = Tail(fromEngine)
  /\ LET line == Head(fromEngine)
         pending == pendingEval
     IN  IF line.kind = "uciok"
           THEN /\ toEngine' = send(send(toEngine, Command("setoption", None, 0)),
                                    Command("isready", None, 0))
                /\ UNCHANGED <<readyPromise, pendingEval, engineRequestId,
                               evaluations, stopsPosted>>
         ELSE IF line.kind = "readyok"
           THEN IF readyPromise = [promise |-> "pending"]
                  THEN /\ readyPromise' = [promise |-> "resolved"]
                       /\ EngineAssign(resumeFrom(engineFields, 1))
                  ELSE UNCHANGED <<readyPromise, pendingEval, engineRequestId,
                                   toEngine, evaluations, stopsPosted>>
         ELSE IF pending = Null
           THEN UNCHANGED <<readyPromise, pendingEval, engineRequestId,
                            toEngine, evaluations, stopsPosted>>
         ELSE IF line.kind = "info"
           THEN LET parsed == parseInfoLine(line)
                IN  /\ pendingEval' =
                         IF parsed = Null THEN pending
                         ELSE [pending EXCEPT !.lines = (parsed.multipv :> parsed) @@ @]
                    /\ UNCHANGED <<readyPromise, engineRequestId, toEngine,
                                   evaluations, stopsPosted>>
         ELSE \* 'bestmove'
                LET result == [bestMove |-> [position |-> line.position,
                                             search |-> line.search],
                               topLines |-> topLines(pending.lines)]
                IN  /\ pendingEval' = Null
                    /\ evaluations' =
                         IF pending.requestId = engineRequestId
                           THEN [evaluations EXCEPT ![pending.call] =
                                   [@ EXCEPT !.state = "resolved", !.result = result]]
                           ELSE evaluations
                    /\ UNCHANGED <<readyPromise, engineRequestId, toEngine, stopsPosted>>
  /\ UNCHANGED <<worker, engine>>
  /\ EngineRest

\* Stockfish reads the next command; a 'go' waits for the end of a search
EngineReceive ==
  /\ toEngine # <<>>
  /\ LET command == Head(toEngine)
     IN  /\ command.cmd = "go" => engine.searching = 0
         /\ toEngine' = Tail(toEngine)
         /\ IF command.cmd = "uci"
              THEN /\ fromEngine' = Append(fromEngine, Line("uciok", 0, FALSE, None, 0))
                   /\ UNCHANGED engine
            ELSE IF command.cmd = "isready"
              THEN /\ fromEngine' = Append(fromEngine, Line("readyok", 0, FALSE, None, 0))
                   /\ UNCHANGED engine
            ELSE IF command.cmd = "position"
              THEN /\ engine' = [engine EXCEPT !.position = command.fen]
                   /\ UNCHANGED fromEngine
            ELSE IF command.cmd = "go"
              THEN /\ engine' = [engine EXCEPT !.searching = command.request,
                                               !.searched = engine.position,
                                               !.infos = 0]
                   /\ UNCHANGED fromEngine
            ELSE IF command.cmd = "stop" /\ engine.searching # 0
              THEN /\ fromEngine' = Append(fromEngine,
                        Line("bestmove", 0, FALSE, engine.searched, engine.searching))
                   /\ engine' = [engine EXCEPT !.searching = 0]
            ELSE UNCHANGED <<fromEngine, engine>>
  /\ UNCHANGED <<worker, readyPromise, pendingEval, engineRequestId, evaluations, stopsPosted>>
  /\ EngineRest

\* the running search reports a line, with a principal variation or without
EngineInfo ==
  /\ engine.searching # 0
  /\ engine.infos < MaxInfoLines
  /\ \E multipv \in 1..MaxMultiPV, hasPv \in BOOLEAN :
       fromEngine' = Append(fromEngine,
         Line("info", multipv, hasPv, engine.searched, engine.searching))
  /\ engine' = [engine EXCEPT !.infos = @ + 1]
  /\ UNCHANGED <<worker, readyPromise, pendingEval, engineRequestId, toEngine,
                 evaluations, stopsPosted>>
  /\ EngineRest

\* the running search reaches its depth
EngineBestMove ==
  /\ engine.searching # 0
  /\ fromEngine' = Append(fromEngine,
       Line("bestmove", 0, FALSE, engine.searched, engine.searching))
  /\ engine' = [engine EXCEPT !.searching = 0]
  /\ UNCHANGED <<worker, readyPromise, pendingEval, engineRequestId, toEngine,
                 evaluations, stopsPosted>>
  /\ EngineRest

EngineNext ==
  \/ EngineInit
  \/ Evaluate
  \/ CancelPending
  \/ EngineStop
  \/ WorkerError
  \/ HandleLine
  \/ EngineReceive
  \/ EngineInfo
  \/ EngineBestMove

EngineSpec == Init /\ [][EngineNext]_vars

(***************************************************************************)
(* The in-thread VisionPipeline: detector and classifier run on the        *)
(* caller's thread, handleFrame is an async method suspended at its two    *)
(* awaits.                                                                 *)
(***************************************************************************)
\* frames the interval timer captures
MaxFrames == 3
\* start() calls made on the in-thread pipeline
MaxPipelineStarts == 2

\* the FENs pieceClassifier.classify(boardImage) answers with
ClassifiedFens == {piecesToFen(StartPieces), piecesToFen(E4Pieces)}

InThreadRest ==
  UNCHANGED <<latestRequestId, lastDeliveredAt, forceFlip, terminated, flips, updates,
              toWorker, toMain, canceledRequestId, previousPieces, tasks, alive,
              classifierVars, observations, call, settingsVars, requestEpoch, engineVars,
              panelVars>>

\* start(videoElement, onUpdate)
InThreadStart ==
  /\ ~running
  /\ starts < MaxPipelineStarts
  /\ running' = TRUE
  /\ starts' = starts + 1
  /\ UNCHANGED <<lastFen, clock, cachedBoardRegion, lastBoardDetectionAt, inThreadVars>>
  /\ InThreadRest

\* stop()
InThreadStop ==
  /\ running' = FALSE
  /\ lastFen' = NoFen
  /\ cachedBoardRegion' = Null
  /\ lastBoardDetectionAt' = 0
  /\ processing' = FALSE
  /\ UNCHANGED <<starts, clock, invocations>>
  /\ InThreadRest

\* the interval timer of FrameCapture fires (it runs from start() to stop())
\* and handleFrame runs up to its first await
InThreadHandleFrame ==
  /\ running
  /\ Len(invocations) < MaxFrames
  /\ \E frame \in Frames, elapsed \in Elapsed(Len(invocations)) :
       LET now == clock + elapsed
           invocation == [pc |-> "dropped", frame |-> frame, now |-> now,
                          callback |-> starts, boardImage |-> Null, update |-> Null]
       IN  /\ clock' = now
           /\ IF ~running \/ processing
                THEN /\ invocations' = Append(invocations, invocation)
                     /\ UNCHANGED processing
                ELSE /\ processing' = TRUE
                     /\ invocations' = Append(invocations,
                          IF needsDetection(now, boardRefreshMs)
                            THEN [invocation EXCEPT !.pc = "detect"]
                            ELSE [invocation EXCEPT
                                    !.pc = "classify",
                                    !.boardImage = cropImageData(frame, cachedBoardRegion)])
  /\ UNCHANGED <<running, starts, lastFen, cachedBoardRegion, lastBoardDetectionAt>>
  /\ InThreadRest

\* handleFrame resumes after `await this.boardDetector.detect(frame)`
InThreadAfterDetect(k) ==
  /\ invocations[k].pc = "detect"
  /\ LET invocation == invocations[k]
         region == invocation.frame.board
     IN  IF region = Throws
           THEN /\ invocations' = [invocations EXCEPT ![k].pc = "threw"]
                /\ processing' = FALSE
                /\ UNCHANGED <<cachedBoardRegion, lastBoardDetectionAt>>
           ELSE /\ cachedBoardRegion' = region
                /\ lastBoardDetectionAt' = invocation.now
                /\ IF region = Null
                     THEN /\ invocations' = [invocations EXCEPT ![k].pc = "no-board"]
                          /\ processing' = FALSE
                     ELSE /\ invocations' = [invocations EXCEPT
                               ![k].pc = "classify",
                               ![k].boardImage = cropImageData(invocation.frame, region)]
                          /\ UNCHANGED processing
  /\ UNCHANGED <<running, starts, lastFen, clock>>
  /\ InThreadRest

\* handleFrame resumes after `await this.pieceClassifier.classify(boardImage)`
InThreadAfterClassify(k) ==
  /\ invocations[k].pc = "classify"
  /\ \E rejects \in BOOLEAN, fen \in ClassifiedFens :
       IF rejects
         THEN /\ invocations' = [invocations EXCEPT ![k].pc = "threw"]
              /\ UNCHANGED lastFen
         ELSE /\ lastFen' = detectLastFen(lastFen, fen)
              /\ invocations' = [invocations EXCEPT
                   ![k].pc = "updated",
                   ![k].update = [fen |-> fen, boardRegion |-> cachedBoardRegion,
                                  change |-> detectType(lastFen, fen),
                                  timestamp |-> invocations[k].now]]
  /\ processing' = FALSE
  /\ UNCHANGED <<running, starts, clock, cachedBoardRegion, lastBoardDetectionAt>>
  /\ InThreadRest

InThreadNext ==
  \/ InThreadStart
  \/ InThreadStop
  \/ InThreadHandleFrame
  \/ \E k \in 1..Len(invocations) : InThreadAfterDetect(k)
  \/ \E k \in 1..Len(invocations) : InThreadAfterClassify(k)

InThreadSpec == Init /\ [][InThreadNext]_vars

(***************************************************************************)
(* PanelController (part_001) with its StockfishEngine and the Stockfish   *)
(* process.  Every listener call and every message event is one task; the  *)
(* continuation of analyzePosition after its `await` runs when the task    *)
(* that settled the promise of evaluate() has ended, before any other      *)
(* task.  InteractiveBoard is not part of the sources: setPosition shows    *)
(* the position it is given, and a piece moved by the user calls           *)
(* onPositionChange with the new position.  The searches report no 'info'  *)
(* lines here: they fill the topLines of a result and settle nothing.      *)
(***************************************************************************)
\* vision updates the panel receives
MaxVisionUpdates == 2

\* a VisionPipelineUpdate; id stands for its timestamp
VisionUpdate(id, fen, change) == [id |-> id, fen |-> fen, change |-> change]
\* the changes reported; 'new-game' differs from 'move' by the prompt only
UpdateChanges == {"no-change", "move"}

\* what chrome.storage.local holds under STORAGE_KEY when the panel opens
StoredUpdates == {VisionUpdate(0, "fenA", "move")}

\* no continuation of analyzePosition waits to run
MainIdle ==
  \A k \in 1..Len(analyses) :
    analyses[k].noticed \/ evaluations[k].state \notin {"resolved", "rejected"}

\* engine.evaluate(fen) called by the panel; init() returns the readyPromise
\* that PanelController.init() created
panelEvaluate(e, fen) ==
  LET k == Len(e.evaluations) + 1
      called == [e EXCEPT !.evaluations = Append(@, NewEvaluation(fen, "awaiting"))]
  IN  IF readyPromise = [promise |-> "resolved"] THEN evaluateAfterInit(called, k)
      ELSE IF readyPromise = [promise |-> "rejected"]
      THEN [e EXCEPT !.evaluations = Append(@,
              [NewEvaluation(fen, "rejected") EXCEPT !.reason = "worker-failed"])]
      ELSE called

\* line 190: generation !== this.analysisGeneration
isStale(generation, current) == generation # current

\* analyzePosition(fen) up to its await, lines 181-189: the loading text
\* replaces the engine lines, the score and the arrow stay
AnalyzePosition(fen) ==
  /\ analysisGeneration' = analysisGeneration + 1
  /\ analyses' = Append(analyses,
       [generation |-> analysisGeneration + 1, fen |-> fen, noticed |-> FALSE])
  /\ EngineAssign(panelEvaluate(cancelPending(engineFields), fen))
  /\ UNCHANGED <<worker, readyPromise, fromEngine, engine, displayed>>

\* applyVisionUpdate(update), lines 163-179; via is history: the caller
ApplyVisionUpdate(update, via) ==
  /\ pendingSyncUpdate' = Null
  /\ panelLastFen' = update.fen
  /\ boardFen' = update.fen
  /\ moveHistory' = IF update.change # "no-change"
                      THEN <<[id |-> update.id, change |-> update.change]>> \o moveHistory
                      ELSE moveHistory
  /\ applications' = Append(applications, [id |-> update.id, via |-> via])
  /\ AnalyzePosition(update.fen)

PanelRest ==
  UNCHANGED <<pipelineVars, observations, call, settingsVars, requestEpoch, inThreadVars>>

\* init() up to the await of loadLastUpdate, lines 64-79 and 138-139:
\* bindControls, engine.init(), the message listener, storage.get
PanelInit ==
  /\ panelPc = "constructed"
  /\ panelPc' = "loading"
  /\ worker' = [worker |-> "stockfish"]
  /\ readyPromise' = [promise |-> "pending"]
  /\ toEngine' = Append(toEngine, Command("uci", None, 0))
  /\ \E hasUpdate \in BOOLEAN, update \in StoredUpdates :
       storedUpdate' = IF hasUpdate THEN update ELSE Null
  /\ UNCHANGED <<pendingEval, engineRequestId, fromEngine, engine, evaluations, stopsPosted>>
  /\ UNCHANGED <<syncEnabled, autoAdvance, pendingSyncUpdate, panelLastFen, boardFen,
                 moveHistory, analysisGeneration, analyses, displayed, received, applications>>
  /\ PanelRest

\* loadLastUpdate after storage.get, lines 140-148
LoadLastUpdate ==
  /\ panelPc = "loading"
  /\ MainIdle
  /\ Len(evaluations) < MaxEvaluations
  /\ panelPc' = "ready"
  /\ IF storedUpdate # Null
       THEN ApplyVisionUpdate(storedUpdate, "load")
       ELSE /\ boardFen' = panelLastFen
            /\ AnalyzePosition(panelLastFen)
            /\ UNCHANGED <<pendingSyncUpdate, panelLastFen, moveHistory, applications>>
  /\ UNCHANGED <<syncEnabled, autoAdvance, storedUpdate, received>>
  /\ PanelRest

\* the runtime.onMessage listener with a vision update: onVisionUpdate,
\* lines 151-161
OnVisionUpdate ==
  /\ panelPc # "constructed"
  /\ MainIdle
  /\ received < MaxVisionUpdates
  /\ received' = received + 1
  /\ \E fen \in EngineFens, change \in UpdateChanges :
       LET update == VisionUpdate(received + 1, fen, change)
       IN  IF ~syncEnabled \/ ~autoAdvance
             THEN /\ pendingSyncUpdate' = update
                  /\ UNCHANGED <<panelLastFen, boardFen, moveHistory, analysisGeneration,
                                 analyses, displayed, applications, engineVars>>
             ELSE /\ Len(evaluations) < MaxEvaluations
                  /\ ApplyVisionUpdate(update, "message")
  /\ UNCHANGED <<panelPc, syncEnabled, autoAdvance, storedUpdate>>
  /\ PanelRest

\* click on the sync toggle, lines 83-92
SyncToggle ==
  /\ panelPc # "constructed"
  /\ MainIdle
  /\ syncEnabled' = ~syncEnabled
  /\ IF ~syncEnabled /\ autoAdvance /\ pendingSyncUpdate # Null
       THEN /\ Len(evaluations) < MaxEvaluations
            /\ ApplyVisionUpdate(pendingSyncUpdate, "sync-toggle")
       ELSE UNCHANGED <<pendingSyncUpdate, panelLastFen, boardFen, moveHistory,
                        analysisGeneration, analyses, displayed, applications, engineVars>>
  /\ UNCHANGED <<panelPc, autoAdvance, storedUpdate, received>>
  /\ PanelRest

\* click on the auto-advance toggle, lines 94-103
AutoToggle ==
  /\ panelPc # "constructed"
  /\ MainIdle
  /\ autoAdvance' = ~autoAdvance
  /\ IF ~autoAdvance /\ syncEnabled /\ pendingSyncUpdate # Null
       THEN /\ Len(evaluations) < MaxEvaluations
            /\ ApplyVisionUpdate(pendingSyncUpdate, "auto-toggle")
       ELSE UNCHANGED <<pendingSyncUpdate, panelLastFen, boardFen, moveHistory,
                        analysisGeneration, analyses, displayed, applications, engineVars>>
  /\ UNCHANGED <<panelPc, syncEnabled, storedUpdate, received>>
  /\ PanelRest

\* click on 'Apply Latest' with an update pending, lines 105-112
ApplyLatest ==
  /\ panelPc # "constructed"
  /\ MainIdle
  /\ pendingSyncUpdate # Null
  /\ Len(evaluations) < MaxEvaluations
  /\ ApplyVisionUpdate(pendingSyncUpdate, "apply-latest")
  /\ UNCHANGED <<panelPc, syncEnabled, autoAdvance, storedUpdate, received>>
  /\ PanelRest

\* the user moves a piece: onPositionChange, lines 57-60
ManualMove ==
  /\ panelPc = "ready"
  /\ MainIdle
  /\ Len(evaluations) < MaxEvaluations
  /\ \E fen \in EngineFens :
       /\ fen # boardFen
       /\ boardFen' = fen
       /\ panelLastFen' = fen
       /\ AnalyzePosition(fen)
  /\ UNCHANGED <<panelPc, syncEnabled, autoAdvance, pendingSyncUpdate, moveHistory,
                 storedUpdate, received, applications>>
  /\ PanelRest

\* analyzePosition after its await, lines 189-201, for the first evaluate()
\* promise that has settled
AnalysisSettled ==
  /\ ~MainIdle
  /\ LET k == CHOOSE i \in 1..Len(analyses) :
                 /\ ~analyses[i].noticed
                 /\ evaluations[i].state \in {"resolved", "rejected"}
                 /\ \A j \in 1..(i - 1) :
                      analyses[j].noticed \/ evaluations[j].state \notin {"resolved", "rejected"}
     IN  /\ analyses' = [analyses EXCEPT ![k].noticed = TRUE]
         /\ displayed' =
              IF evaluations[k].state = "resolved"
                THEN IF isStale(analyses[k].generation, analysisGeneration) THEN displayed
                     ELSE [kind |-> "eval", analysis |-> k, latest |-> analysisGeneration,
                           position |-> evaluations[k].result.bestMove.position,
                           search |-> evaluations[k].result.bestMove.search]
              ELSE IF evaluations[k].reason = "AbortError" THEN displayed
              ELSE [NothingDisplayed EXCEPT !.kind = "failed", !.analysis = k,
                                            !.latest = analysisGeneration]
  /\ UNCHANGED <<panelPc, syncEnabled, autoAdvance, pendingSyncUpdate, panelLastFen, boardFen,
                 moveHistory, analysisGeneration, storedUpdate, received, applications>>
  /\ UNCHANGED engineVars
  /\ PanelRest

\* the message and error events of the engine's worker, as tasks of the
\* panel's thread
PanelHandleLine == MainIdle /\ HandleLine
PanelWorkerError == MainIdle /\ WorkerError

PanelNext ==
  \/ PanelInit
  \/ LoadLastUpdate
  \/ OnVisionUpdate
  \/ SyncToggle
  \/ AutoToggle
  \/ ApplyLatest
  \/ ManualMove
  \/ AnalysisSettled
  \/ PanelHandleLine
  \/ PanelWorkerError
  \/ EngineReceive
  \/ EngineBestMove

PanelSpec == Init /\ [][PanelNext]_vars

(***************************************************************************)
(* Properties                                                              *)
(***************************************************************************)
\* the onUpdate calls made for request n
DeliveredFor(n) == {i \in 1..Len(updates) : updates[i].requestId = n}

\* the messages about request n that are on their way to the main thread
InTransitFor(n) == {i \in 1..Len(toMain) : toMain[i].requestId = n}

\* C1: once handleFrame has submitted request N + 1, no PipelineUpdate is
\* delivered for request N any more, whatever the worker and the channels do.
C1_SupersededNeverDelivered ==
  [][\A n \in RequestIds :
       latestRequestId > n => DeliveredFor(n)' = DeliveredFor(n)]_vars

\* C1 witness: the worker posted a result for request N, request N + 1 was
\* submitted before it was handled, and the running pipeline has handled it
\* without delivering it.
C1_Witness ==
  \E n \in RequestIds :
    /\ running
    /\ latestRequestId > n
    /\ tasks[n].exit = "result"
    /\ InTransitFor(n) = {}
    /\ DeliveredFor(n) = {}

\* C2: the request ids of the delivered updates are strictly increasing (so
\* each id gives at most one update), and every update was delivered while
\* its request was still the newest one submitted.
C2_StrictlyIncreasingUpdates ==
  /\ \A i, j \in 1..Len(updates) :
       i < j => updates[i].requestId < updates[j].requestId
  /\ \A i \in 1..Len(updates) :
       updates[i].latestAtDelivery = updates[i].requestId

\* C2 witness: two updates were delivered, and a result that was superseded
\* while in transit has been dropped in between or is still in transit.
C2_Witness ==
  /\ Len(updates) >= 2
  /\ updates[1].requestId < updates[2].requestId

Posts(id) ==
  /\ Len(toMain') = Len(toMain) + 1
  /\ toMain'[Len(toMain')].requestId = id

\* this step posts a result for request id
PostsResult(id) == Posts(id) /\ toMain'[Len(toMain')].type = "result"

\* the 64 squares of a FEN, "." for an empty one
squaresOfFen(fen) == expandFrom(boardPart(fen), 1)

\* the character of a label in squaresOfFen
squareChar(label) == IF label = "1" THEN "." ELSE label

\* C4: in a posted result, every square whose confidence is strictly below
\* the threshold carries the label of the previous snapshot when there is
\* one, every other square carries the newly classified label, and
\* lowConfidenceSquares counts the overridden squares (0 without a previous
\* snapshot).
C4_ConfidenceSmoothing ==
  [][\A id \in RequestIds :
       PostsResult(id) =>
         LET c == classificationOf(tasks[id])
             threshold == tasks[id].msg.confidenceThreshold
             response == toMain'[Len(toMain')]
             board == squaresOfFen(response.fen)
             low == {i \in Squares : c.confidences[i] < threshold}
         IN  IF previousPieces # NoPieces
             THEN /\ board = [k \in 1..64 |->
                               squareChar(IF k - 1 \in low THEN previousPieces[k - 1]
                                          ELSE c.pieces[k - 1])]
                  /\ response.lowConfidenceSquares = Cardinality(low)
             ELSE /\ board = [k \in 1..64 |-> squareChar(c.pieces[k - 1])]
                  /\ response.lowConfidenceSquares = 0]_vars

\* C4 witness: after the start position, the position after 1.e4 e5 is
\* classified by the heuristic.  Square 12 (confidence 0.3) keeps its pawn,
\* square 11 (confidence exactly 0.58) takes the new label, and two squares
\* were overridden.
C4_Witness ==
  \E k \in 1..Len(toMain) :
    /\ toMain[k].type = "result"
    /\ toMain[k].lowConfidenceSquares = 2
    /\ squaresOfFen(toMain[k].fen)[12 + 1] = "p"
    /\ squaresOfFen(toMain[k].fen)[11 + 1] = "."
    /\ squaresOfFen(toMain[k].fen)[28 + 1] = "."

\* C5: handleProcess runs the detector exactly when no region is cached or
\* the last detection is at least boardRefreshMs old; a detection that
\* returns is stored with the time of the request; otherwise the cache is
\* left alone and the frame is cropped with the cached region, which is also
\* the region of the posted result.
C5_RegionCaching ==
  [][\A id \in RequestIds :
       LET t == tasks[id]
           after == tasks'[id]
       IN  /\ (t.pc = "idle" /\ after.pc # "idle" /\ id > canceledRequestId) =>
                LET message == Head(toWorker)
                IN  /\ after.pc = "detect" <=>
                         \/ cachedBoardRegion = Null
                         \/ message.now - lastBoardDetectionAt >= message.boardRefreshMs
                    /\ cachedBoardRegion' = cachedBoardRegion
                    /\ lastBoardDetectionAt' = lastBoardDetectionAt
                    /\ after.boardImage # Null => after.boardImage.rect = cachedBoardRegion
           /\ (t.pc = "detect" /\ after.pc # "detect" /\ alive'
                 /\ t.msg.frame.board # Throws) =>
                /\ cachedBoardRegion' = t.msg.frame.board
                /\ lastBoardDetectionAt' = t.msg.now
                /\ after.boardImage # Null => after.boardImage.rect = t.msg.frame.board
           /\ PostsResult(id) =>
                toMain'[Len(toMain')].boardRegion = t.boardImage.rect]_vars

\* C5 witness: a request that arrived less than boardRefreshMs after the
\* last detection was cropped with the cached region although the detector
\* would have found another one, and its result reports the cached region.
C5_Witness ==
  \E k \in 1..Len(toMain) :
    /\ toMain[k].type = "result"
    /\ toMain[k].requestId = 2
    /\ toMain[k].boardRegion = Region1
    /\ cachedBoardRegion = Region1
    /\ lastBoardDetectionAt = ClockStart
    /\ clock < ClockStart + boardRefreshMs
    /\ tasks[1].wroteRegion
    /\ ~tasks[2].wroteRegion

\* C6: when the detector finds no board, handleProcess returns without
\* posting anything; previousPieces, the remembered FEN and the delivered
\* updates stay as they were, and no message or update for that request ever
\* exists.
C6_NoRegionIsSilent ==
  [][\A id \in RequestIds :
       /\ (tasks[id].pc = "detect" /\ tasks[id].msg.frame.board = Null
             /\ tasks'[id].pc # "detect" /\ alive') =>
            /\ tasks'[id].pc = "done"
            /\ toMain' = toMain
            /\ previousPieces' = previousPieces
            /\ lastFen' = lastFen
            /\ updates' = updates
       /\ tasks'[id].exit = "no-region" =>
            /\ InTransitFor(id)' = {}
            /\ DeliveredFor(id)' = {}
            /\ tasks[id].pc = "done" => tasks'[id] = tasks[id]]_vars

\* C6 witness: after a delivered result, the detector found no board for
\* the next request; the previous snapshot and the remembered FEN are still
\* there.
C6_Witness ==
  \E id \in RequestIds :
    /\ tasks[id].exit = "no-region"
    /\ previousPieces # NoPieces
    /\ lastFen # NoFen
    /\ Len(updates) = 1

\* C7: when the detector or the classifier throws for a request that is not
\* cancelled, exactly one error message carrying the request id and the
\* exception's message is posted; previousPieces, the remembered FEN and the
\* updates are untouched, and the main thread delivers nothing for an error.
C7_ErrorReported ==
  [][\A id \in RequestIds :
       LET t == tasks[id]
           detectThrew == t.pc = "detect" /\ t.msg.frame.board = Throws
           classifyThrew == t.pc = "threw"
       IN  /\ ((detectThrew \/ classifyThrew) /\ tasks'[id] # t /\ alive'
                 /\ id > canceledRequestId) =>
                /\ toMain' = Append(toMain,
                     [type |-> "error", requestId |-> id,
                      message |-> IF detectThrew THEN "detect-failed"
                                  ELSE t.result.error])
                /\ tasks'[id].pc = "done"
                /\ previousPieces' = previousPieces
                /\ lastFen' = lastFen
                /\ updates' = updates
           /\ (t.pc = "done" /\ t.exit = "error") =>
                /\ tasks'[id] = t
                /\ ~Posts(id)
                /\ DeliveredFor(id)' = {}
           /\ (toMain # <<>> /\ toMain' = Tail(toMain) /\ Head(toMain).type = "error") =>
                /\ updates' = updates
                /\ lastFen' = lastFen]_vars

\* C7 witness: request 1 ended in an error message, which the main thread
\* has handled, and request 2 was then processed and delivered.
C7_Witness ==
  /\ tasks[1].exit = "error"
  /\ InTransitFor(1) = {}
  /\ Len(updates) = 1
  /\ updates[1].requestId = 2

\* C8 as stated: classifyDetailed never rejects, whatever the backend does.
C8_ClassifierNeverThrows ==
  \A id \in RequestIds : tasks[id].pc # "threw"

\* the initializations in flight
PendingLoads == {p \in 1..Len(loads) : loads[p] = "pending"}

\* C9: at most one initialization is in flight and none while a session is
\* cached; one is started only when there is neither; a classification that
\* arrives while one is in flight starts none, awaits that one, and goes on
\* only when it has settled.
C9_SingleInitialization ==
  [][/\ Cardinality(PendingLoads') <= 1
     /\ session' # Null => PendingLoads' = {}
     /\ Len(loads') > Len(loads) => (PendingLoads = {} /\ session = Null)
     /\ \A id \in RequestIds :
          LET t == tasks[id]
              after == tasks'[id]
          IN  /\ (t.pc \in {"idle", "detect"} /\ after.pc = "ensure"
                    /\ PendingLoads # {}) =>
                   /\ loads' = loads
                   /\ after.awaiting # Null
                   /\ after.awaiting.load \in PendingLoads
              /\ (t.pc = "ensure" /\ after.pc \in {"run", "classified"}) =>
                   \/ t.awaiting = Null
                   \/ loads[t.awaiting.load] # "pending"]_vars

\* C9 witness: two classifications await the same initialization, which is
\* still in flight.
C9_Witness ==
  \E p \in PendingLoads :
    \A id \in 1..2 :
      /\ tasks[id].pc = "ensure"
      /\ tasks[id].awaiting = [load |-> p]

\* C10 as stated: when dispose() has completed, neither a session nor an
\* initialization is cached, and no session created before stays cached.
C10_DisposeClearsCache ==
  disposePc = "done" =>
    /\ modelLoadPromise = Null
    /\ session = Null

\* the squares at which the boards of two FENs differ
differingSquares(fen1, fen2) ==
  LET board1 == squaresOfFen(fen1)
      board2 == squaresOfFen(fen2)
  IN  {i \in Squares : charAt(board1, i) # charAt(board2, i)}

\* the detect() calls among the observations
Detections == {i \in 1..Len(observations) : observations[i].op = "detect"}

\* C11: the detector has no remembered FEN before its first call and after
\* every reset(), and a detect(f) made without a remembered FEN returns
\* new-game and remembers f.
C11_FirstObservationIsNewGame ==
  /\ \A i \in 1..Len(observations) :
       (i = 1 \/ observations[i - 1].op = "reset") => observations[i].before = NoFen
  /\ \A i \in Detections :
       observations[i].before = NoFen =>
         /\ observations[i].type = "new-game"
         /\ observations[i].after = observations[i].fen
  /\ observations # <<>> => lastFen = observations[Len(observations)].after

\* C11 witness: a FEN was observed, then another one (a move), then reset()
\* was called and the second FEN observed again: new-game instead of
\* no-change.
C11_Witness ==
  /\ Len(observations) = 4
  /\ observations[1].op = "detect"
  /\ observations[2].op = "detect"
  /\ observations[2].type = "move"
  /\ observations[3].op = "reset"
  /\ observations[4].op = "detect"
  /\ observations[4].fen = observations[2].fen
  /\ observations[4].type = "new-game"
  /\ lastFen = observations[4].fen

\* C12 as stated: a FEN whose board part equals the board part of the
\* remembered FEN is answered with no-change.
C12_SameBoardIsNoChange ==
  \A i \in Detections :
    (observations[i].before # NoFen
       /\ boardPart(observations[i].fen) = boardPart(observations[i].before)) =>
      observations[i].type = "no-change"

\* C13: a FEN that differs from the remembered one is answered with new-game
\* exactly when more than 10 of the 64 squares differ, and with move
\* otherwise.
C13_NewGameAboveTenSquares ==
  \A i \in Detections :
    (observations[i].before # NoFen /\ observations[i].fen # observations[i].before) =>
      LET d == Cardinality(differingSquares(observations[i].before, observations[i].fen))
      IN  /\ observations[i].type \in {"new-game", "move"}
          /\ observations[i].type = "new-game" <=> d > 10
          /\ observations[i].diff = d

\* C13 witness: the start position was observed after a position 10 squares
\* away (move), then e2-e4 was played (2 squares, move), then a position 11
\* squares away was observed (new-game).
C13_Witness ==
  /\ Len(observations) = 4
  /\ observations[2].fen = piecesToFen(StartPieces)
  /\ observations[2].diff = 10
  /\ observations[2].type = "move"
  /\ observations[3].fen = piecesToFen(E4Pieces)
  /\ differingSquares(observations[2].fen, observations[3].fen) = {36, 52}
  /\ observations[3].type = "move"
  /\ observations[4].diff = 11
  /\ observations[4].type = "new-game"

\* C14 as stated: the start position observed after the empty board is a
\* new-game for which the detector counts 64 differing squares.
C14_EmptyThenStartCounts64 ==
  \A i \in Detections :
    (observations[i].before = EmptyBoard /\ observations[i].fen = StartBoard) =>
      /\ observations[i].type = "new-game"
      /\ observations[i].diff = 64

\* C14: the start position observed after the empty board is a new-game;
\* the detector counts the 32 squares that hold a piece, the 32 squares
\* empty on both boards do not differ.
C14_EmptyThenStartCounts32 ==
  \A i \in Detections :
    (observations[i].before = EmptyBoard /\ observations[i].fen = StartBoard) =>
      /\ observations[i].type = "new-game"
      /\ observations[i].diff = 32
      /\ differingSquares(EmptyBoard, StartBoard) = {sq \in Squares : StartPieces[sq] # "1"}

\* C14 witness: 8/8/8/8/8/8/8/8 was observed first and the start position
\* right after it.
C14_Witness ==
  /\ Len(observations) >= 2
  /\ observations[1].op = "detect"
  /\ observations[1].fen = EmptyBoard
  /\ observations[2].op = "detect"
  /\ observations[2].fen = StartBoard
  /\ observations[2].type = "new-game"

\* C15 as stated: a region returned for a frame of at least 32 by 32 lies
\* inside the frame, and its square covers at least minCoverage of the
\* downsampled frame.
C15_RegionInsideFrame ==
  (call.fn = "detect" /\ call.frame.width >= 32 /\ call.frame.height >= 32
     /\ call.region # Null) =>
    LET scale == scaleOf(call.frame.width, call.frame.height)
        sw == downsampled(call.frame.width, scale)
        sh == downsampled(call.frame.height, scale)
    IN  /\ call.region.x >= 0
        /\ call.region.y >= 0
        /\ call.region.x + call.region.width <= call.frame.width
        /\ call.region.y + call.region.height <= call.frame.height
        /\ \E side \in 1..Min(sw, sh) :
             /\ unscale(side, scale) = call.region.width
             /\ side * side * 100 >= 6 * sw * sh

\* C20: a frame narrower or lower than 32 pixels gets null from detect(),
\* which returns before it reads a pixel.
C20_SmallFrameIsRejected ==
  (call.fn = "detect" /\ (call.frame.width < 32 \/ call.frame.height < 32)) =>
    /\ call.region = Null
    /\ call.stage = "rejected"

\* C20 witness: a frame 31 pixels wide whose mask would hold a component
\* that fills nearly all of it.
C20_Witness ==
  /\ call.fn = "detect"
  /\ call.frame.width = 31
  /\ call.frame.height = 360
  /\ call.frame.components # <<>>
  /\ call.frame.components[1].boxWidth = 30
  /\ call.frame.components[1].pixels = 900
  /\ call.region = Null

\* C16 as stated: a flipped result carries the labels and the confidences
\* of the raw classification both rotated by 180 degrees, an unflipped one
\* carries both as they are; it is flipped exactly when forceFlip is set or
\* the raw labels resolve to black-bottom.
C16_ConfidencesFollowLabels ==
  call.fn = "classifyDetailed" =>
    /\ call.result.wasFlipped <=>
         (call.forceFlip \/ detectBoardPerspective(call.raw.pieces) = "black-bottom")
    /\ \A sq \in Squares :
         LET src == IF call.result.wasFlipped THEN 63 - sq ELSE sq
         IN  /\ call.result.pieces[sq] = call.raw.pieces[src]
             /\ call.result.confidences[sq] = call.raw.confidences[src]

\* C17 as stated: the heuristic labels a tile occupied only if its
\* luminance variance exceeds 0.08, and labels a tile of variance 0.01
\* empty with a confidence of at least 0.2.
C17_OccupiedAboveVarianceThreshold ==
  (call.fn = "classifyDetailed" /\ ~call.viaModel) =>
    \A sq \in Squares :
      /\ call.raw.pieces[sq] # "1" => call.variance[sq] > 8000000
      /\ call.variance[sq] = 1000000 =>
           (call.raw.pieces[sq] = "1" /\ call.raw.confidences[sq] >= 200)

\* a rank of a board part: pieces and digits 1..8, and exactly 8 squares
rankSquares(rank) ==
  IF rank = <<>> THEN 0
  ELSE LET RECURSIVE count(_)
           count(i) ==
             IF i > Len(rank) THEN 0
             ELSE (IF IsDigit(rank[i]) THEN ParseDigit(rank[i]) ELSE 1) + count(i + 1)
       IN  count(1)

rankHasEightSquares(rank) ==
  /\ \A i \in 1..Len(rank) :
       rank[i] \in WhiteLabels \cup BlackLabels \cup {"1", "2", "3", "4", "5", "6", "7", "8"}
  /\ rankSquares(rank) = 8

\* every rank of the board part describes exactly 8 squares, and there are 8
eightRanksOfEight(board) ==
  LET ranks == splitRanksFrom(board, 1, <<>>)
  IN  /\ Len(ranks) = 8
      /\ \A r \in 1..8 : rankHasEightSquares(ranks[r])

\* no two digits stand next to each other
noAdjacentDigits(board) ==
  \A i \in 1..(Len(board) - 1) : ~(IsDigit(board[i]) /\ IsDigit(board[i + 1]))

\* C18 as stated: piecesToFen(fenToPieces(b)) has the board part b for
\* every board part b of 8 ranks that each describe exactly 8 squares, and
\* fenToPieces(piecesToFen(p)) = p for every label array p.
C18_RoundTripOfEveryBoard ==
  /\ (call.fn = "fenToPieces" /\ eightRanksOfEight(call.fen)) =>
       boardPart(piecesToFen(call.pieces)) = call.fen
  /\ call.fn = "piecesToFen" => fenToPieces(call.fen) = call.pieces

\* C18: piecesToFen(fenToPieces(b)) has the board part b for every board
\* part b of 8 ranks that each describe exactly 8 squares and in which no
\* two digits are adjacent, and fenToPieces(piecesToFen(p)) = p for every
\* label array p.
C18_RoundTripOfCanonicalBoard ==
  /\ (call.fn = "fenToPieces" /\ eightRanksOfEight(call.fen)
        /\ noAdjacentDigits(call.fen)) =>
       boardPart(piecesToFen(call.pieces)) = call.fen
  /\ call.fn = "piecesToFen" =>
       /\ fenToPieces(call.fen) = call.pieces
       /\ eightRanksOfEight(boardPart(call.fen))
       /\ noAdjacentDigits(boardPart(call.fen))

\* C18 witness: a board part with pieces of both colours and runs of empty
\* squares at the start, in the middle and at the end of a rank was parsed.
C18_Witness ==
  /\ call.fn = "fenToPieces"
  /\ call.fen = joined([i \in 1..8 |-> IF i = 3 THEN <<"3", "n", "B", "2", "r">>
                                         ELSE <<"4", "P", "3">>], 1)
  /\ call.pieces[16 + 3] = "n"
  /\ call.pieces[16 + 4] = "B"
  /\ call.pieces[16 + 7] = "r"
  /\ call.pieces[4] = "P"

\* C19: rotatePieces180 applied to its own result gives the array back, and
\* the label at (rank, file) is found at (7 - rank, 7 - file).
C19_RotateTwiceIsIdentity ==
  call.fn = "rotatePieces180" =>
    /\ rotatePieces180(call.out) = call.pieces
    /\ \A rank \in 0..7, file \in 0..7 :
         call.out[(7 - rank) * 8 + (7 - file)] = call.pieces[rank * 8 + file]

\* C19 witness: the start position with the pawn of e7 on e5 was rotated: the pawn on square
\* 28 is on square 35.
C19_Witness ==
  /\ call.fn = "rotatePieces180"
  /\ call.pieces = E5Pieces
  /\ call.out[35] = "p"
  /\ call.out[0] = "R"
  /\ call.out # call.pieces

\* the worker has handled a dispose message
Disposed == disposePc # "idle"

\* C21: once the worker has handled a dispose message, the cached Region and
\* the previous BoardSnapshot are cleared and stay cleared, and no
\* handleProcess invocation, suspended at that moment or started later, posts
\* a result or an error.
C21_DisposalIsFinal ==
  [][/\ Disposed' => (cachedBoardRegion' = Null /\ previousPieces' = NoPieces)
     /\ Disposed => \A id \in RequestIds : ~Posts(id)]_vars

\* C21 witness: the dispose message was handled while a handleProcess
\* invocation that had cached a Region was waiting for session.run, and that
\* invocation has since returned without a message of its request in transit.
C21_Witness ==
  /\ Disposed
  /\ cachedBoardRegion = Null
  /\ \E id \in RequestIds :
       /\ tasks[id].wroteRegion
       /\ tasks[id].exit \in {"canceled", "error-suppressed"}
       /\ InTransitFor(id) = {}
       /\ DeliveredFor(id) = {}

\* settings within the safe ranges
inSafeRanges(settings) ==
  /\ DOMAIN settings = Fields
  /\ LET scan == settings["scanFrequencySec"]
         depth == settings["engineDepth"]
     IN  /\ isNumber(scan) /\ ~scan.nan /\ scan.v >= SCAN_MIN /\ scan.v <= SCAN_MAX
         /\ isNumber(depth) /\ ~depth.nan /\ depth.v >= DEPTH_MIN /\ depth.v <= DEPTH_MAX
         /\ depth.v % 100 = 0
  /\ isOneOf(settings["boardTheme"], BOARD_THEMES)
  /\ isOneOf(settings["uiTheme"], UI_THEMES)
  /\ \A f \in FlagFields : isBoolean(settings[f])

\* C22 as stated: sanitizeSettings returns settings in the safe ranges for
\* every candidate, and so do loadSettings and saveSettings; what
\* saveSettings stores is in the safe ranges.
C22_SettingsInSafeRanges ==
  /\ call.fn = "sanitizeSettings" => inSafeRanges(call.returned)
  /\ \A k \in 1..Len(settingsCalls) : inSafeRanges(settingsCalls[k].returned)
  /\ stored # Undefined => inSafeRanges(stored)

\* C23 as stated: no update is delivered for a request that was submitted
\* before a stop(): every update reaches the callback of the start() under
\* which its request was submitted.
C23_NoUpdateAcrossStop ==
  \A i \in 1..Len(updates) : requestEpoch[updates[i].requestId] = updates[i].callback

\* this step posts a process message to the worker
PostsProcess ==
  /\ Len(toWorker') > Len(toWorker)
  /\ toWorker'[Len(toWorker')].type = "process"

\* C24: request ids start at 1 and each is one more than the one before;
\* a process message carrying N + 1 (N >= 1) is posted right behind a cancel
\* message carrying N on the channel to the worker; and when the worker
\* starts handleProcess for N + 1 it has already recorded N as cancelled.
C24_CancelPrecedesNextProcess ==
  /\ latestRequestId = 0
  /\ [][/\ latestRequestId' # latestRequestId => latestRequestId' = latestRequestId + 1
        /\ PostsProcess =>
             LET last == Len(toWorker')
                 id == toWorker'[last].requestId
             IN  /\ id = latestRequestId'
                 /\ id = latestRequestId + 1
                 /\ id > 1 =>
                      /\ last - 1 > Len(toWorker)
                      /\ toWorker'[last - 1] = [type |-> "cancel", requestId |-> id - 1]
        /\ \A id \in RequestIds :
             (tasks[id].pc = "idle" /\ tasks'[id].pc # "idle") => canceledRequestId >= id - 1
       ]_vars

\* C24 witness: the worker has started request 2 while its handleProcess for
\* request 1 is still suspended, and it knows request 1 is cancelled.
C24_Witness ==
  /\ tasks[1].pc \in {"ensure", "run"}
  /\ tasks[2].pc \in {"ensure", "run"}
  /\ canceledRequestId = 1
  /\ latestRequestId = 2

\* the handleProcess invocations that have started and not returned
Suspended == {id \in RequestIds : tasks[id].pc \notin {"idle", "done"}}

\* the suspended invocations whose request is not cancelled
Live == {id \in Suspended : id > canceledRequestId}

\* C25: at most one suspended handleProcess invocation is for a request that
\* is not cancelled; an invocation that assigns the previous BoardSnapshot
\* or posts a message is for a request that is not cancelled, and no other
\* invocation is live in that step.
C25_AtMostOneLiveTask ==
  /\ [](Cardinality(Live) <= 1)
  /\ [][/\ (previousPieces' # previousPieces /\ previousPieces' # NoPieces) =>
             \E id \in Live : /\ tasks'[id].exit = "result"
                              /\ Live = {id}
        /\ \A id \in RequestIds :
             Posts(id) => /\ id > canceledRequestId
                          /\ Live \subseteq {id}
       ]_vars

\* C25 witness: the invocation for request 2 has posted its result while the
\* invocation for the cancelled request 1 is still suspended in session.run.
C25_Witness ==
  /\ tasks[1].pc = "run"
  /\ tasks[2].exit = "result"
  /\ previousPieces # NoPieces
  /\ canceledRequestId = 1

Outstanding(n) ==
  /\ running
  /\ ~terminated
  /\ latestRequestId = n
  /\ requestEpoch[n] = starts

\* what ends the wait for request n: its update is delivered, a newer frame
\* is submitted, stop() or destroy() is called, no Region is found, or the
\* processing raised an exception
Settled(n) ==
  \/ DeliveredFor(n) # {}
  \/ latestRequestId > n
  \/ ~running
  \/ tasks[n].exit \in {"no-region", "error"}

\* C27: under fair scheduling of the worker and of message delivery, a
\* request submitted to a running pipeline leads to the delivery of its
\* update unless a newer frame, stop() or destroy() comes first, no Region
\* is found or the processing raises an exception; and no request has more
\* than one update delivered.
C27_OutstandingRequestIsDelivered ==
  /\ [](\A n \in RequestIds : Cardinality(DeliveredFor(n)) <= 1)
  /\ \A n \in RequestIds : Outstanding(n) ~> Settled(n)

\* C27 witness: the update of request 2 was delivered while request 2 was
\* the newest request, the pipeline still runs and nothing is in transit.
C27_Witness ==
  /\ running
  /\ latestRequestId = 2
  /\ Cardinality(DeliveredFor(2)) = 1
  /\ tasks[2].exit = "result"
  /\ toMain = <<>>
  /\ toWorker = <<>>

\* C28: the bestMove and the top lines of every evaluate() call that
\* resolved come from the search that call started, never from an earlier
\* search.
C28_ResultFromOwnSearch ==
  \A k \in 1..Len(evaluations) :
    evaluations[k].state = "resolved" =>
      LET result == evaluations[k].result
      IN  /\ result.bestMove.search = evaluations[k].requestId
          /\ \A i \in 1..Len(result.topLines) :
               result.topLines[i].search = evaluations[k].requestId

\* the evaluate() calls whose promise is pending in the engine
PendingEvaluations == { k \in 1..Len(evaluations) : evaluations[k].state = "pending" }

\* C29: at most one evaluation is pending, and it is the one pendingEval
\* holds; an evaluation leaves pendingEval either resolved by its bestmove
\* or, superseded by evaluate, cancelPending or stop, rejected with an
\* AbortError in the step that posts 'stop'; a settled promise never changes.
C29_OnePendingSupersededRejected ==
  /\ [](/\ Cardinality(PendingEvaluations) <= 1
        /\ \A k \in 1..Len(evaluations) :
             k \in PendingEvaluations <=> (pendingEval # Null /\ pendingEval.call = k))
  /\ [][\A k \in 1..Len(evaluations) :
          /\ (k \in PendingEvaluations /\ evaluations'[k].state # "pending") =>
               \/ evaluations'[k].state = "resolved"
               \/ /\ evaluations'[k].state = "rejected"
                  /\ evaluations'[k].reason = "AbortError"
                  /\ stopsPosted' = stopsPosted + 1
          /\ evaluations[k].state \in {"resolved", "rejected"} =>
               evaluations'[k] = evaluations[k]]_vars

\* three evaluate() calls: the first resolved, the second superseded by the
\* third, which is pending
C29_Witness ==
  /\ Len(evaluations) = 3
  /\ evaluations[1].state = "resolved"
  /\ evaluations[2].state = "rejected"
  /\ evaluations[2].reason = "AbortError"
  /\ evaluations[3].state = "pending"
  /\ stopsPosted = 1

\* the handleFrame invocations that have set the processing flag and have
\* not reached their `finally`
Processing == { k \in 1..Len(invocations) : invocations[k].pc \in {"detect", "classify"} }

\* C30: in the in-thread pipeline at most one handleFrame invocation is
\* between setting the processing flag and clearing it in its `finally`.
C30_OneFrameAtATime == Cardinality(Processing) <= 1

\* the saveSettings calls that have returned, but for those that were given
\* NaN (the storage may keep null for it, which reads back as the default)
SavesDone ==
  { k \in 1..Len(settingsCalls) :
      /\ settingsCalls[k].fn = "saveSettings"
      /\ settingsCalls[k].pc = "done"
      /\ \A f \in DOMAIN settingsCalls[k].patch : settingsCalls[k].patch[f] # NaN }

\* the stored settings hold, for the property the k-th call patched, the
\* value that call merged
holdsPatchOf(k) ==
  \A f \in DOMAIN settingsCalls[k].patch : stored[f] = settingsCalls[k].returned[f]

\* C33 as stated: when two saveSettings calls that patch different
\* properties have both returned, the stored settings contain both patches,
\* however the calls interleaved.
C33_NoLostUpdate ==
  \A j \in SavesDone, k \in SavesDone :
    DOMAIN settingsCalls[j].patch # DOMAIN settingsCalls[k].patch =>
      holdsPatchOf(j) /\ holdsPatchOf(k)

\* a FEN as piecesToFen is to write it: 8 ranks of 8 squares, no two digits
\* adjacent, then ' w - - 0 1'
assembledFen(fen) ==
  LET board == boardPart(fen)
  IN  /\ fen = board \o FEN_SUFFIX
      /\ eightRanksOfEight(board)
      /\ noAdjacentDigits(board)

\* C34: piecesToFen returns 8 '/'-separated ranks of exactly 8 squares each,
\* empty runs written as one digit 1-8, followed by ' w - - 0 1', for every
\* label array; every FEN of a worker result has that form.
C34_FenIsAssembled ==
  /\ call.fn = "piecesToFen" => assembledFen(call.fen)
  /\ \A i \in 1..Len(toMain) : toMain[i].type = "result" => assembledFen(toMain[i].fen)

\* C34 witness: piecesToFen was given the position after 1. e4, with runs
\* of empty squares before and after a pawn and a gap inside a rank
C34_Witness ==
  /\ call.fn = "piecesToFen"
  /\ call.pieces = E4Pieces
  /\ LET ranks == splitRanksFrom(boardPart(call.fen), 1, <<>>)
     IN  /\ ranks[5] = <<"4", "P", "3">>
         /\ ranks[7] = <<"P", "P", "P", "P", "1", "P", "P", "P">>
         /\ ranks[3] = <<"8">>

\* C35: without forceFlip the labels classifyDetailed returns are never
\* black-bottom; wasFlipped is (forceFlip or the raw labels are
\* black-bottom) and a flipped result is the raw labels rotated once;
\* rotating a black-bottom array gives a white-bottom one.
C35_NormalizedInOneStep ==
  /\ call.fn = "classifyDetailed" =>
       LET rawPerspective == detectBoardPerspective(call.raw.pieces)
       IN  /\ ~call.forceFlip =>
                detectBoardPerspective(call.result.pieces) = "white-bottom"
           /\ call.result.wasFlipped <=> (call.forceFlip \/ rawPerspective = "black-bottom")
           /\ call.result.pieces =
                IF call.result.wasFlipped THEN rotatePieces180(call.raw.pieces)
                ELSE call.raw.pieces
  /\ (call.fn = "rotatePieces180" /\ detectBoardPerspective(call.pieces) = "black-bottom") =>
       detectBoardPerspective(call.out) = "white-bottom"

\* C35 witness: the model's labels are black-bottom, forceFlip is off, and
\* the result is the rotated array, white-bottom
C35_Witness ==
  /\ call.fn = "classifyDetailed"
  /\ ~call.forceFlip
  /\ detectBoardPerspective(call.raw.pieces) = "black-bottom"
  /\ call.result.wasFlipped
  /\ call.result.pieces # call.raw.pieces
  /\ detectBoardPerspective(call.result.pieces) = "white-bottom"

\* what came immediately before observation i: nothing, a reset() or the
\* FEN of a detect()
precedingObservation(i) ==
  IF i = 1 THEN [op |-> "none", fen |-> NoFen]
  ELSE [op |-> observations[i - 1].op, fen |-> observations[i - 1].fen]

\* C36: after every detect(f) the remembered FEN is f; the result depends
\* only on f and on the observation immediately before it; no-change leaves
\* the remembered FEN as it was; and a change of at most 10 squares from the
\* preceding FEN is a move, whatever was observed earlier.
C36_ComparesWithPrecedingOnly ==
  /\ \A i \in Detections :
       /\ observations[i].after = observations[i].fen
       /\ observations[i].type = "no-change" => observations[i].after = observations[i].before
       /\ observations[i].before = precedingObservation(i).fen
       /\ (/\ precedingObservation(i).op = "detect"
           /\ observations[i].fen # precedingObservation(i).fen
           /\ Cardinality(differingSquares(precedingObservation(i).fen, observations[i].fen)) <= 10)
            => observations[i].type = "move"
  /\ \A i, j \in Detections :
       (/\ observations[i].fen = observations[j].fen
        /\ precedingObservation(i) = precedingObservation(j))
         => observations[i].type = observations[j].type
  /\ observations # <<>> /\ observations[Len(observations)].op = "detect"
       => lastFen = observations[Len(observations)].fen

\* C36 witness: the start position, then a position 10 squares away (move),
\* the same again (no-change), then one 3 squares further (move) that is 13
\* squares away from the start position.
C36_Witness ==
  /\ Len(observations) = 4
  /\ observations[1].op = "detect"
  /\ observations[1].fen = piecesToFen(StartPieces)
  /\ observations[2].op = "detect"
  /\ observations[2].diff = 10
  /\ observations[2].type = "move"
  /\ observations[3].op = "detect"
  /\ observations[3].type = "no-change"
  /\ observations[4].op = "detect"
  /\ observations[4].diff = 3
  /\ observations[4].type = "move"
  /\ Cardinality(differingSquares(observations[1].fen, observations[4].fen)) = 13
  /\ lastFen = observations[4].fen

\* the cells of a mask that are set, and the set cells next to a cell
setCells(mask) == {i \in MaskCells : mask[i] = 1}
adjacent(i, j) ==
  \/ i \div MaskWidth = j \div MaskWidth /\ Abs(i - j) = 1
  \/ i % MaskWidth = j % MaskWidth /\ Abs(i - j) = MaskWidth

\* the set cells joined to the cells of S by steps between adjacent set cells
RECURSIVE joinedTo(_, _)
joinedTo(mask, S) ==
  LET more == S \cup {j \in setCells(mask) : \E i \in S : adjacent(i, j)}
  IN  IF more = S THEN S ELSE joinedTo(mask, more)

\* the 4-connected components of a mask, as sets of cells
componentsOfMask(mask) == {joinedTo(mask, {i}) : i \in setCells(mask)}

\* the bounding box, pixel count and first cell in scan order of a component
measured(S) ==
  LET xs == {i % MaskWidth : i \in S}
      ys == {i \div MaskWidth : i \in S}
      minX == CHOOSE x \in xs : \A o \in xs : x <= o
      maxX == CHOOSE x \in xs : \A o \in xs : x >= o
      minY == CHOOSE y \in ys : \A o \in ys : y <= o
      maxY == CHOOSE y \in ys : \A o \in ys : y >= o
  IN  [minX |-> minX, minY |-> minY,
       boxWidth |-> maxX - minX + 1, boxHeight |-> maxY - minY + 1,
       pixels |-> Cardinality(S),
       startIdx |-> CHOOSE i \in S : \A o \in S : i <= o]

\* area * squareness * fill of a measured component times the box height
\* of the component it is compared with: the two scores over a common
\* denominator
scoreTimes(c, other) ==
  c.pixels * Max(0, c.boxHeight - Abs(c.boxHeight - c.boxWidth)) * other.boxHeight

\* C37: the component findBestSquareComponent keeps is a 4-connected
\* component of the mask whose score no other component exceeds, and of the
\* components with that score it is the first in row-major scan order;
\* nothing is kept only when the mask has no component.
C37_FirstOfMaximalScore ==
  call.fn = "findBestSquareComponent" =>
    LET all == {measured(S) : S \in componentsOfMask(call.mask)}
    IN  /\ call.best.none <=> all = {}
        /\ ~call.best.none =>
             /\ call.best.component \in all
             /\ \A c \in all :
                  /\ scoreTimes(c, call.best.component) <= scoreTimes(call.best.component, c)
                  /\ scoreTimes(c, call.best.component) = scoreTimes(call.best.component, c)
                       => call.best.component.startIdx <= c.startIdx

\* C37 witness: a mask with two columns of two cells, both of score 1; the
\* one that comes first in scan order is kept
C37_Witness ==
  /\ call.fn = "findBestSquareComponent"
  /\ ~call.best.none
  /\ LET all == {measured(S) : S \in componentsOfMask(call.mask)}
     IN  /\ Cardinality(all) = 2
         /\ \A c \in all : c.pixels = 2 /\ c.boxHeight = 2
         /\ \E c \in all : c.startIdx > call.best.component.startIdx

\* the evaluation renderEval showed last was the result of the
\* analyzePosition call that was the latest one started when it was shown
RenderedForLatestCall ==
  displayed.kind = "eval" => displayed.analysis = displayed.latest

\* C31: the evaluation the panel displays belongs to the analysis that was
\* the most recently started one when it was rendered: it is the result of
\* that analyzePosition call, and it is an evaluation of the position of
\* that call, not of the position of an older analysis request.
C31_DisplayedIsOfLatestAnalysis ==
  displayed.kind = "eval" =>
    /\ displayed.analysis = displayed.latest
    /\ displayed.position = analyses[displayed.analysis].fen

\* the callers of applyVisionUpdate that apply the pending update
PendingAppliers == {"apply-latest", "sync-toggle", "auto-toggle"}

\* a vision update arrives in this step while sync is paused or auto-advance
\* is off
QueuedArrival ==
  /\ received' = received + 1
  /\ ~syncEnabled \/ ~autoAdvance

\* the pending update is applied in this step by 'Apply Latest' or by a
\* toggle that turns sync and auto-advance both on
PendingApplied ==
  /\ pendingSyncUpdate' = Null
  /\ boardFen' = pendingSyncUpdate.fen
  /\ \E via \in PendingAppliers :
       /\ applications' = Append(applications, [id |-> pendingSyncUpdate.id, via |-> via])
       /\ via # "apply-latest" => syncEnabled' /\ autoAdvance'

\* C32: an update that arrives while sync is paused or auto-advance is off
\* changes neither the position nor the move history and becomes the pending
\* update; a pending update is given up only for a newer one that arrives or
\* by being applied, on 'Apply Latest' or by a toggle that turns both on;
\* nothing is pending while both are on, and no update is applied twice.
C32_PendingAppliedOnce ==
  /\ [](pendingSyncUpdate # Null => ~(syncEnabled /\ autoAdvance))
  /\ [](\A i, j \in 1..Len(applications) :
          applications[i].id = applications[j].id => i = j)
  /\ [][QueuedArrival =>
          /\ boardFen' = boardFen
          /\ moveHistory' = moveHistory
          /\ pendingSyncUpdate'.id = received']_vars
  /\ [][(pendingSyncUpdate # Null /\ pendingSyncUpdate' # pendingSyncUpdate) =>
          \/ QueuedArrival
          \/ PendingApplied]_vars

====
